---- MODULE Spec2Model ----
(***************************************************************************)
(* Mailbox synchronisation and fan-out forwarding server                   *)
(* (src/unnamed/part_000): the push handlers POST /gmail/push and          *)
(* POST /gmail-notify, processHistorySince, forwardMessageById, the manual *)
(* GET /fetch trigger, the GET /events subscriber hub, the watch triggers, *)
(* the extraction of a message's bodies, and the persisted cursor record   *)
(* gmail_state.json; and the agent container it posts to                   *)
(* (src/core/container_src/src/server.ts, agent.ts).                       *)
(*                                                                         *)
(* The server is one Node.js process: a handler runs without interruption  *)
(* from one `await` to the next, so every action below is the code between *)
(* two suspension points of one handler, taken when the awaited reply      *)
(* arrives. Replies of the collaborators (the remote mailbox, the webhook, *)
(* the agent container, the file system) are chosen by the environment.    *)
(***************************************************************************)
EXTENDS Naturals, Sequences, FiniteSets, TLC

\* ----------------------------------------------------------------- bounds
MaxLog == 2
MaxMsg == 2
MaxRequests == 2
MaxClients == 2
MaxEvents == 3

\* Requests the container receives.
MaxCalls == 4

\* Parts directly under the payload of a message.
MaxParts == 2

VARIABLES
  gmail,      \* `let gmail`: TRUE once the OAuth callback has built the client
  env,        \* process.env: which sink endpoints are configured
  remoteLog,  \* the remote mailbox's change log (history records, oldest first)
  stateFile,  \* contents of gmail_state.json; historyId = 0 stands for "no key"
  passes,     \* one record per push delivery, in arrival order
  fetch,      \* the GET /fetch handler
  sseClients, \* `const sseClients = new Set()`: responses in insertion order
  broken,     \* the attached responses whose write() throws
  heartbeats, \* the responses whose setInterval heartbeat timer is armed
  watch,      \* the POST /watch/start and POST /watch/stop handlers
  agentSessions, \* the container's `agentSessions` Map
  queries,    \* the container's calls of runAgentQuery, in arrival order
  response,   \* the container's last response, and how many it has sent
  payload,    \* msg.data.payload of the message being extracted
  emailData   \* the emailData object built from it

\* The state of the container, and of an extraction.
containerVars == <<agentSessions, queries, response>>

mailVars == <<payload, emailData>>

vars == <<gmail, env, remoteLog, stateFile, passes, fetch, sseClients, broken,
          heartbeats, watch, containerVars, mailVars>>

\* ---------------------------------------------------------------- helpers
Range(s) == {s[i] : i \in DOMAIN s}

Count(m, s) == Cardinality({i \in DOMAIN s : s[i] = m})

MsgIds == 1..MaxMsg

\* ------------------------------------------------------ the remote mailbox
\* A history record carries its id and the ids of the messages it added. The
\* record at index i has id i + 1: the mailbox starts at position 1.
\* The mailbox numbers its messages as they arrive: a new record names no
\* message, a message already in the log (once or twice), or the next new one.
LoggedMsgs == UNION {Range(remoteLog[i].messagesAdded) : i \in DOMAIN remoteLog}

MessagesAddedChoices ==
  LET known == (LoggedMsgs \cup {Cardinality(LoggedMsgs) + 1}) \cap MsgIds
  IN  {<<>>} \cup {<<m>> : m \in known} \cup {<<m, m>> : m \in known}

mailboxHistoryId == Len(remoteLog) + 1

\* users.history.list: the records after the page token, or after
\* startHistoryId when there is no token; the server decides how many (k) it
\* puts on the page and returns a nextPageToken when more remain.
HistoryAfter(from) == SubSeq(remoteLog, from, Len(remoteLog))

historyList(startHistoryId, pageToken, k) ==
  LET from == IF pageToken # 0 THEN pageToken ELSE startHistoryId
      avail == HistoryAfter(from)
      page == SubSeq(avail, 1, k)
  IN  [history |-> page,
       nextPageToken |-> IF k < Len(avail) THEN page[k].id ELSE 0]

PageSizes(startHistoryId, pageToken) ==
  LET from == IF pageToken # 0 THEN pageToken ELSE startHistoryId
      n == Len(HistoryAfter(from))
  IN  IF n = 0 THEN {0} ELSE 1..n

\* ------------------------------------------------------------ cursor store
\* gmail_state.json holds a JSON object the server wrote (json = "object"),
\* is missing or does not parse (json = "unparsable"), or holds valid JSON
\* that is not an object, such as null (json = "null"). others: the keys
\* of the object besides historyId, with their values ("none": no such key).
StateObjectWith(historyId, others) ==
  [json |-> "object", historyId |-> historyId, others |-> others]

StateObject(historyId) == StateObjectWith(historyId, "none")

\* try { return JSON.parse(fs.readFileSync(...)) } catch { return {} }:
\* a read or parse error yields {}, anything that parses is returned as is.
loadState ==
  IF stateFile.json = "unparsable" THEN StateObject(0) ELSE stateFile

\* try { fs.writeFileSync(..., JSON.stringify(obj)) } catch { log }
saveState(obj, writeOk) == IF writeOk THEN obj ELSE stateFile

\* -------------------------------------------------- forwardMessageById
\* The progress of one forward: which await it is suspended on (pc), and what
\* each sink has answered so far.
\* bad, sent: the subscribers whose write threw in the broadcast, and those
\* the event was written to. csid, qsid: the session identifier carried by
\* the create call and by the query call ("none": not sent).
NoFw ==
  [pc |-> "idle", id |-> 0, bcast |-> "none", hook |-> "none",
   create |-> "none", query |-> "none", out |-> "none",
   bad |-> {}, sent |-> {}, csid |-> "none", qsid |-> "none"]

\* forwardMessageById(id) up to its first await, users.messages.get.
FwStart(id) == [NoFw EXCEPT !.pc = "get", !.id = id, !.out = "run"]

\* Variant of sseBroadcast with one try/catch around the whole loop: the
\* first failing write ends the loop.
sseBroadcastOneTry(f) ==
  LET firstBad == {i \in DOMAIN sseClients :
                     /\ sseClients[i] \in broken
                     /\ \A j \in 1..(i - 1) : sseClients[j] \notin broken}
  IN  [f EXCEPT !.bcast = "done",
                !.bad = {sseClients[i] : i \in firstBad},
                !.sent = {sseClients[i] : i \in
                            {j \in DOMAIN sseClients :
                               \A k \in firstBad : j < k}}]

\* sseBroadcast: for (const res of sseClients) { try { res.write(...) }
\* catch (_) {} }: each subscriber's writes are in their own try/catch, so
\* a failing write is dropped there and the loop goes on; the caller sees
\* the broadcast done whatever the subscribers did.
sseBroadcast(f) ==
  [f EXCEPT !.bcast = "done",
            !.bad = Range(sseClients) \cap broken,
            !.sent = Range(sseClients) \ broken]

\* const CONTAINER_SESSION_ID = `intern-${rnd}`: computed once when the
\* module is loaded, the same value until the process ends.
CONTAINER_SESSION_ID == "intern-rnd"

\* Variant of ensureContainerSession that rethrows every error of the create
\* call, the 409 included.
ensureContainerSessionRethrow(f, reply) ==
  IF reply = "ok"
    THEN [f EXCEPT !.create = reply, !.pc = "query",
                   !.qsid = CONTAINER_SESSION_ID]
    ELSE [f EXCEPT !.create = reply, !.pc = "end", !.out = "threw"]

\* ensureContainerSession: 2xx and 409 are logged, any other failure is warned
\* about; nothing is thrown. The caller goes on to POST the query.
ensureContainerSession(f, reply) ==
  [f EXCEPT !.create = reply, !.pc = "query", !.qsid = CONTAINER_SESSION_ID]

\* Variant of containerQueryReply without the try/catch around the query POST.
containerQueryReplyUncaught(f, reply) ==
  IF reply = "ok"
    THEN [f EXCEPT !.query = reply, !.pc = "end", !.out = "ok"]
    ELSE [f EXCEPT !.query = reply, !.pc = "end", !.out = "threw"]

\* The query POST of postEmailToContainerAPI, inside try/catch.
containerQueryReply(f, reply) ==
  [f EXCEPT !.query = reply, !.pc = "end", !.out = "ok"]

\* Variant of postEmailToContainerAPI without `if (!base) return`.
postEmailToContainerAPIAlways(f) ==
  [f EXCEPT !.pc = "create", !.csid = CONTAINER_SESSION_ID]

\* Variant of postEmailToContainerAPI that posts the query without calling
\* ensureContainerSession first.
postEmailToContainerAPINoCreate(f) ==
  IF ~env.OUTBOUND_POST_URL
    THEN [f EXCEPT !.pc = "end", !.out = "ok"]
    ELSE [f EXCEPT !.pc = "query", !.qsid = CONTAINER_SESSION_ID]

\* postEmailToContainerAPI up to its first await, the create POST of
\* ensureContainerSession.
postEmailToContainerAPI(f) ==
  IF ~env.OUTBOUND_POST_URL
    THEN [f EXCEPT !.pc = "end", !.out = "ok"]
    ELSE [f EXCEPT !.pc = "create", !.csid = CONTAINER_SESSION_ID]

\* await axios.post(NGROK_ENDPOINT, emailData): not inside any try/catch.
webhookReply(f, reply) ==
  IF reply = "ok"
    THEN postEmailToContainerAPI([f EXCEPT !.hook = "ok"])
    ELSE [f EXCEPT !.hook = "fail", !.pc = "end", !.out = "threw"]

\* The reply of users.messages.get, then extraction, the broadcast and the
\* start of the webhook POST or of the agent relay.
messageGetReply(f, reply) ==
  IF reply # "ok"
    THEN [f EXCEPT !.pc = "end", !.out = "threw"]
    ELSE LET g == sseBroadcast(f)
         IN  IF env.NGROK_ENDPOINT
               THEN [g EXCEPT !.pc = "hook"]
               ELSE postEmailToContainerAPI(g)

\* One reply delivered to a suspended forward.
FwStep(f, reply) ==
  CASE f.pc = "get" -> messageGetReply(f, reply)
    [] f.pc = "hook" -> webhookReply(f, reply)
    [] f.pc = "create" -> ensureContainerSession(f, reply)
    [] f.pc = "query" -> containerQueryReply(f, reply)

\* The replies the environment can give at each await.
Replies(f) ==
  IF f.pc = "create" THEN {"ok", "conflict", "fail"} ELSE {"ok", "fail"}

\* ------------------------------------------------- processHistorySince
\* `added` is a JavaScript Set: it keeps insertion order and ignores an
\* identifier it already holds. It is kept here as a duplicate-free sequence.
\* Variant of SetAdd that keeps an array instead of a Set.
SetAddNoDedup(added, id) == Append(added, id)

SetAdd(added, id) == IF id \in Range(added) THEN added ELSE Append(added, id)

\* (h.messagesAdded || []).forEach(m => { if (m?.message?.id) added.add(...) })
RECURSIVE AddMessages(_, _)
AddMessages(added, ms) ==
  IF ms = <<>>
    THEN added
    ELSE AddMessages(IF Head(ms) # 0 THEN SetAdd(added, Head(ms)) ELSE added,
                     Tail(ms))

\* Variant of NextLatest with the operands swapped: latestHistoryId || h.id.
NextLatestKeepsFirst(latestHistoryId, h) ==
  IF latestHistoryId # 0 THEN latestHistoryId ELSE h.id

\* latestHistoryId = h.id || latestHistoryId
NextLatest(latestHistoryId, h) == IF h.id # 0 THEN h.id ELSE latestHistoryId

\* history.forEach(...) over one page.
RECURSIVE FoldHistory(_, _, _)
FoldHistory(latestHistoryId, added, history) ==
  IF history = <<>>
    THEN [latestHistoryId |-> latestHistoryId, added |-> added]
    ELSE FoldHistory(NextLatest(latestHistoryId, Head(history)),
                     AddMessages(added, Head(history).messagesAdded),
                     Tail(history))

\* A push delivery and the sync pass it starts. pc: "list" (awaiting a
\* history page), "fwd" (inside `await forwardMessageById(id)`), "done".
\* outcome: "discarded" (no usable hint), "error" (an exception reached the
\* handler's catch), "ok" (processHistorySince returned).
\* handed: the identifiers forwardMessageById was called with, in call order.
\* ack: the status the response was ended with (0: not yet). threw: the
\* statement whose exception reached the handler's catch. wrote: saveState
\* was called by the pass.
\* seq, len0, len1, cur1 record when the pass ran: whether every earlier
\* handler had finished when it arrived, the length of the remote log when
\* it arrived and when it finished, and the persisted cursor when it finished.
NewPass(hint) ==
  [pc |-> "done", hint |-> hint, start |-> 0, pageToken |-> 0,
   latestHistoryId |-> 0, added |-> <<>>, handed |-> <<>>, failed |-> 0,
   fw |-> NoFw, outcome |-> "discarded", saved |-> FALSE,
   ack |-> 0, threw |-> "none", wrote |-> FALSE,
   seq |-> \A q \in DOMAIN passes : passes[q].pc = "done",
   len0 |-> Len(remoteLog), len1 |-> 0, cur1 |-> 0]

\* Variant of AbortPass that persists the position reached so far.
AbortPassKeepingProgress(ps) ==
  [pass |-> [ps EXCEPT !.pc = "done", !.outcome = "error", !.fw = NoFw],
   file |-> IF ps.latestHistoryId # 0 /\ loadState.json = "object"
              THEN [loadState EXCEPT !.historyId = ps.latestHistoryId]
              ELSE stateFile]

\* An exception leaves processHistorySince and is logged by the handler.
AbortPass(ps) ==
  [pass |-> [ps EXCEPT !.pc = "done", !.outcome = "error", !.fw = NoFw],
   file |-> stateFile]

\* Variant of FinishPass that keeps the cursor back when a forward failed.
FinishPassIfAllForwarded(ps, writeOk) ==
  IF ps.latestHistoryId # 0 /\ loadState.json = "null"
    THEN AbortPass([ps EXCEPT !.threw = "state"])
    ELSE LET save == ps.latestHistoryId # 0 /\ ps.failed = 0
         IN  [pass |-> [ps EXCEPT !.pc = "done", !.outcome = "ok",
                                  !.fw = NoFw, !.wrote = save,
                                  !.saved = (save /\ writeOk)],
              file |-> IF save
                         THEN saveState([loadState EXCEPT
                                           !.historyId = ps.latestHistoryId],
                                        writeOk)
                         ELSE stateFile]

\* Variant of FinishPass that writes a record holding the position alone.
FinishPassFreshRecord(ps, writeOk) ==
  IF ps.latestHistoryId # 0 /\ loadState.json = "null"
    THEN AbortPass([ps EXCEPT !.threw = "state"])
    ELSE [pass |-> [ps EXCEPT !.pc = "done", !.outcome = "ok", !.fw = NoFw,
                              !.wrote = (ps.latestHistoryId # 0),
                              !.saved = (ps.latestHistoryId # 0 /\ writeOk)],
          file |-> IF ps.latestHistoryId # 0
                     THEN saveState(StateObject(ps.latestHistoryId), writeOk)
                     ELSE stateFile]

\* if (latestHistoryId) { state = loadState(); state.historyId = ...;
\* saveState(state) }  return {count, latestHistoryId}
\* The assignment to state.historyId throws a TypeError when loadState
\* returned null.
FinishPass(ps, writeOk) ==
  IF ps.latestHistoryId # 0 /\ loadState.json = "null"
    THEN AbortPass([ps EXCEPT !.threw = "state"])
    ELSE [pass |-> [ps EXCEPT !.pc = "done", !.outcome = "ok", !.fw = NoFw,
                              !.wrote = (ps.latestHistoryId # 0),
                              !.saved = (ps.latestHistoryId # 0 /\ writeOk)],
          file |-> IF ps.latestHistoryId # 0
                     THEN saveState([loadState EXCEPT
                                       !.historyId = ps.latestHistoryId],
                                    writeOk)
                     ELSE stateFile]

\* Variant of NextForward that goes through `added` from its last element.
NextForwardLastFirst(ps, writeOk) ==
  IF Len(ps.handed) < Len(ps.added)
    THEN LET id == ps.added[Len(ps.added) - Len(ps.handed)]
         IN  [pass |-> [ps EXCEPT !.pc = "fwd", !.fw = FwStart(id),
                                  !.handed = Append(ps.handed, id)],
              file |-> stateFile]
    ELSE FinishPass(ps, writeOk)

\* for (const id of added): the next identifier not yet handed over, or the
\* end of the loop.
NextForward(ps, writeOk) ==
  IF Len(ps.handed) < Len(ps.added)
    THEN LET id == ps.added[Len(ps.handed) + 1]
         IN  [pass |-> [ps EXCEPT !.pc = "fwd", !.fw = FwStart(id),
                                  !.handed = Append(ps.handed, id)],
              file |-> stateFile]
    ELSE FinishPass(ps, writeOk)

\* Variant of ForwardSettled without the try/catch inside the loop.
ForwardSettledUncaught(ps, writeOk) ==
  IF ps.fw.out = "threw"
    THEN AbortPass([ps EXCEPT !.threw = "forward"])
    ELSE NextForward(ps, writeOk)

\* try { await forwardMessageById(id) } catch (e) { console.error(...) }
ForwardSettled(ps, writeOk) ==
  IF ps.fw.out = "threw"
    THEN NextForward([ps EXCEPT !.failed = ps.failed + 1], writeOk)
    ELSE NextForward(ps, writeOk)

\* Variant of HistoryListReply without the loop: it forwards after the
\* first page.
HistoryListReplyFirstPageOnly(ps, resp, writeOk) ==
  LET acc == FoldHistory(ps.latestHistoryId, ps.added, resp.history)
      nxt == [ps EXCEPT !.latestHistoryId = acc.latestHistoryId,
                        !.added = acc.added,
                        !.pageToken = resp.nextPageToken]
  IN  NextForward(nxt, writeOk)

\* Variant of HistoryListReply that saves the position after every page.
HistoryListReplySavingPerPage(ps, resp, writeOk) ==
  LET acc == FoldHistory(ps.latestHistoryId, ps.added, resp.history)
      nxt == [ps EXCEPT !.latestHistoryId = acc.latestHistoryId,
                        !.added = acc.added,
                        !.pageToken = resp.nextPageToken]
  IN  IF resp.nextPageToken # 0
        THEN [pass |-> nxt,
              file |-> IF loadState.json = "object"
                         THEN [loadState EXCEPT
                                 !.historyId = acc.latestHistoryId]
                         ELSE stateFile]
        ELSE NextForward(nxt, writeOk)

\* One reply of users.history.list inside the do ... while (pageToken) loop.
HistoryListReply(ps, resp, writeOk) ==
  LET acc == FoldHistory(ps.latestHistoryId, ps.added, resp.history)
      nxt == [ps EXCEPT !.latestHistoryId = acc.latestHistoryId,
                        !.added = acc.added,
                        !.pageToken = resp.nextPageToken]
  IN  IF resp.nextPageToken # 0
        THEN [pass |-> nxt, file |-> stateFile]
        ELSE NextForward(nxt, writeOk)

\* Variant of StartPosition that ignores the persisted cursor.
StartPositionFromHint(state, historyId) == historyId

\* Variant of StartPosition that takes the greater of the two positions.
StartPositionGreater(state, historyId) ==
  IF state.historyId > historyId THEN state.historyId ELSE historyId

\* const start = state.historyId || historyId
StartPosition(state, historyId) ==
  IF state.historyId # 0 THEN state.historyId ELSE historyId

\* Variant of processHistorySince whose TypeError escapes the handler.
processHistorySinceUncaught(ps, startHistoryId) ==
  IF ~gmail
    THEN [pass |-> [ps EXCEPT !.pc = "done", !.start = startHistoryId,
                              !.outcome = "crashed", !.threw = "gmail"],
          file |-> stateFile]
    ELSE [pass |-> [ps EXCEPT !.pc = "list", !.start = startHistoryId,
                              !.latestHistoryId = startHistoryId,
                              !.outcome = "running"],
          file |-> stateFile]

\* processHistorySince(startHistoryId) up to its first await. Before the
\* OAuth callback `gmail` is undefined and gmail.users throws.
processHistorySince(ps, startHistoryId) ==
  IF ~gmail
    THEN AbortPass([ps EXCEPT !.start = startHistoryId, !.threw = "gmail"])
    ELSE [pass |-> [ps EXCEPT !.pc = "list", !.start = startHistoryId,
                              !.latestHistoryId = startHistoryId,
                              !.outcome = "running"],
          file |-> stateFile]

\* The request body of a push: message.data is absent, is base64 text that
\* does not decode to JSON, or decodes to a JSON object whose historyId is a
\* position the mailbox has had (0: the object has no historyId).
Envelopes ==
  {[data |-> "absent", historyId |-> 0], [data |-> "badjson", historyId |-> 0]}
    \cup {[data |-> "json", historyId |-> h] : h \in 0..mailboxHistoryId}

\* JSON.parse(Buffer.from(msg.data, "base64").toString("utf8")).historyId
decodeEnvelope(e) ==
  [threw |-> e.data = "badjson",
   historyId |-> IF e.data = "json" THEN e.historyId ELSE 0]

\* Variant of Acknowledge that leaves the response open.
AcknowledgeNever(ps) == ps

\* res.status(204).end(), the first statement of both push handlers.
Acknowledge(ps) == [ps EXCEPT !.ack = 204]

\* Variant of handlePush without `if (!historyId) return`.
handlePushNoHintCheck(e) ==
  LET acked == Acknowledge(NewPass(0))
      data == decodeEnvelope(e)
      ps == [acked EXCEPT !.hint = data.historyId]
  IN  CASE e.data = "absent" -> [pass |-> acked, file |-> stateFile]
        [] data.threw -> AbortPass([acked EXCEPT !.threw = "decode"])
        [] loadState.json = "null" -> AbortPass([ps EXCEPT !.threw = "state"])
        [] StartPosition(loadState, data.historyId) = 0 ->
             AbortPass([ps EXCEPT !.threw = "list"])
        [] OTHER ->
             processHistorySince(ps, StartPosition(loadState, data.historyId))

\* The body of POST /gmail/push and POST /gmail-notify up to the first
\* await: acknowledge, `if (!msg?.data) return`, decode inside the try,
\* `if (!historyId) return`, load the cursor, start the pass. The read of
\* state.historyId throws a TypeError when loadState returned null.
handlePush(e) ==
  LET acked == Acknowledge(NewPass(0))
      data == decodeEnvelope(e)
      ps == [acked EXCEPT !.hint = data.historyId]
  IN  CASE e.data = "absent" -> [pass |-> acked, file |-> stateFile]
        [] data.threw -> AbortPass([acked EXCEPT !.threw = "decode"])
        [] data.historyId = 0 -> [pass |-> acked, file |-> stateFile]
        [] loadState.json = "null" -> AbortPass([ps EXCEPT !.threw = "state"])
        [] OTHER ->
             processHistorySince(ps, StartPosition(loadState, data.historyId))

\* Stamps a finished pass with the time marks described at NewPass.
Stamp(r) ==
  IF r.pass.pc = "done"
    THEN [r.pass EXCEPT !.len1 = Len(remoteLog), !.cur1 = r.file.historyId]
    ELSE r.pass

\* ----------------------------------------------------------------- actions
\* Requests received so far: push deliveries, manual fetch triggers and
\* watch triggers.
Requests == Len(passes) + fetch.n + watch.n

NoFetch ==
  [pc |-> "idle", n |-> 0, fw |-> NoFw, status |-> 0, answer |-> "none"]

\* sent: the mailbox's position when gmail.users.watch was called.
\* reported: data.historyId of its answer, which res.json passes on.
NoWatch ==
  [pc |-> "idle", n |-> 0, status |-> 0, answer |-> "none", sent |-> 0,
   reported |-> 0]

\* process.env: which of NGROK_ENDPOINT, OUTBOUND_POST_URL and GMAIL_TOPIC
\* are set for the server, and ANTHROPIC_API_KEY for the container.
Environments(ngrok, outbound, topic, apiKey) ==
  [NGROK_ENDPOINT : ngrok, OUTBOUND_POST_URL : outbound, GMAIL_TOPIC : topic,
   ANTHROPIC_API_KEY : apiKey]

\* The container has no session and has answered no request.
NoSessions == [s \in {} |-> 0]

NoResponse == [op |-> "none", sessionId |-> "none", status |-> 0, n |-> 0]

ContainerIdle ==
  agentSessions = NoSessions /\ queries = <<>> /\ response = NoResponse

\* No message is being extracted. A text is a sequence of characters and
\* tags; Undefined stands for the JavaScript value `undefined`.
NoPart == [mimeType |-> "none", data |-> "", parts |-> <<>>]

Undefined == <<"undefined">>

NoEmailData ==
  [built |-> FALSE, text |-> <<>>, html |-> <<>>, body |-> Undefined,
   textBody |-> Undefined, htmlBody |-> Undefined]

MailIdle == payload = NoPart /\ emailData = NoEmailData

\* The server has just booted: no OAuth client yet, no request received, no
\* subscriber attached; the cursor record is absent or was written by an
\* earlier run.
Init ==
  /\ gmail = FALSE
  /\ env \in Environments(BOOLEAN, BOOLEAN, {TRUE}, {TRUE})
  /\ remoteLog = <<>>
  /\ stateFile \in {StateObject(0), StateObject(1)}
  /\ passes = <<>>
  /\ fetch = NoFetch
  /\ sseClients = <<>>
  /\ broken = {}
  /\ heartbeats = {}
  /\ watch = NoWatch
  /\ ContainerIdle /\ MailIdle

\* GET /oauth2callback succeeded: the mailbox client exists from now on.
OAuthCallback ==
  /\ ~gmail
  /\ gmail' = TRUE
  /\ UNCHANGED <<env, remoteLog, stateFile, passes, fetch, sseClients, heartbeats, broken,
               watch, containerVars, mailVars>>

\* The remote mailbox records a change.
NewMail ==
  /\ Len(remoteLog) < MaxLog
  /\ \E ms \in MessagesAddedChoices :
       remoteLog' = Append(remoteLog,
                           [id |-> Len(remoteLog) + 2, messagesAdded |-> ms])
  /\ UNCHANGED <<gmail, env, stateFile, passes, fetch, sseClients, heartbeats, broken,
               watch, containerVars, mailVars>>

\* A push is delivered with any envelope; deliveries may be late, repeated
\* and out of order.
PushArrive ==
  /\ Requests < MaxRequests
  /\ \E e \in Envelopes :
       LET r == handlePush(e)
       IN  /\ passes' = Append(passes, Stamp(r))
           /\ stateFile' = r.file
  /\ UNCHANGED <<gmail, env, remoteLog, fetch, sseClients, heartbeats, broken,
               watch, containerVars, mailVars>>

\* users.history.list answers a suspended pass, or fails.
HistoryListResponse(p) ==
  /\ passes[p].pc = "list"
  /\ \E ok \in BOOLEAN, writeOk \in BOOLEAN :
     \E k \in PageSizes(passes[p].start, passes[p].pageToken) :
       LET r == IF ok
                  THEN HistoryListReply(
                         passes[p],
                         historyList(passes[p].start, passes[p].pageToken, k),
                         writeOk)
                  ELSE AbortPass([passes[p] EXCEPT !.threw = "list"])
       IN  /\ passes' = [passes EXCEPT ![p] = Stamp(r)]
           /\ stateFile' = r.file
  /\ UNCHANGED <<gmail, env, remoteLog, fetch, sseClients, heartbeats, broken,
               watch, containerVars, mailVars>>

\* A collaborator answers the await a pass's forward is suspended on.
ForwardResponse(p) ==
  /\ passes[p].pc = "fwd"
  /\ passes[p].fw.pc # "end"
  /\ \E reply \in Replies(passes[p].fw) :
       passes' = [passes EXCEPT ![p].fw = FwStep(passes[p].fw, reply)]
  /\ UNCHANGED <<gmail, env, remoteLog, stateFile, fetch, sseClients, heartbeats, broken,
               watch, containerVars, mailVars>>

\* The pass resumes after `await forwardMessageById(id)` has settled.
ForwardReturn(p) ==
  /\ passes[p].pc = "fwd"
  /\ passes[p].fw.pc = "end"
  /\ \E writeOk \in BOOLEAN :
       LET r == ForwardSettled(passes[p], writeOk)
       IN  /\ passes' = [passes EXCEPT ![p] = Stamp(r)]
           /\ stateFile' = r.file
  /\ UNCHANGED <<gmail, env, remoteLog, fetch, sseClients, heartbeats, broken,
               watch, containerVars, mailVars>>

\* GET /fetch up to its first await.
FetchArrive ==
  /\ fetch.pc \in {"idle", "done"}
  /\ Requests < MaxRequests
  /\ fetch' = IF ~gmail
                THEN [pc |-> "done", n |-> fetch.n + 1, fw |-> NoFw,
                      status |-> 200, answer |-> "notconnected"]
                ELSE [pc |-> "unread", n |-> fetch.n + 1, fw |-> NoFw,
                      status |-> 0, answer |-> "none"]
  /\ UNCHANGED <<gmail, env, remoteLog, stateFile, passes, sseClients, heartbeats, broken,
               watch, containerVars, mailVars>>

\* users.messages.list({q: "is:unread", maxResults: 1}) answers: it fails,
\* finds nothing (id = 0), or names the latest unread message.
FetchListResponse ==
  /\ fetch.pc = "unread"
  /\ \E ok \in BOOLEAN, id \in 0..MaxMsg :
       fetch' = CASE ~ok ->
                       [fetch EXCEPT !.pc = "done", !.status = 502,
                                     !.answer = "failed"]
                  [] ok /\ id = 0 ->
                       [fetch EXCEPT !.pc = "done", !.status = 200,
                                     !.answer = "nonew"]
                  [] OTHER ->
                       [fetch EXCEPT !.pc = "fwd", !.fw = FwStart(id)]
  /\ UNCHANGED <<gmail, env, remoteLog, stateFile, passes, sseClients, heartbeats, broken,
               watch, containerVars, mailVars>>

\* Variant of FetchForwardResponse that records the mailbox position in the
\* cursor record once the message is forwarded.
FetchForwardResponseSavingCursor ==
  /\ fetch.pc = "fwd"
  /\ \E reply \in Replies(fetch.fw) :
       LET f == FwStep(fetch.fw, reply)
       IN  /\ fetch' = IF f.pc # "end"
                         THEN [fetch EXCEPT !.fw = f]
                         ELSE [fetch EXCEPT
                                 !.fw = f, !.pc = "done",
                                 !.status = IF f.out = "threw" THEN 502 ELSE 200,
                                 !.answer = IF f.out = "threw" THEN "failed"
                                            ELSE "forwarded"]
           /\ stateFile' = IF f.pc = "end" /\ f.out = "ok"
                             THEN saveState([loadState EXCEPT
                                               !.historyId = mailboxHistoryId],
                                            TRUE)
                             ELSE stateFile
  /\ UNCHANGED <<gmail, env, remoteLog, passes, sseClients, heartbeats, broken,
               watch, containerVars, mailVars>>

\* The rest of GET /fetch: the same get, broadcast, webhook and agent steps
\* as forwardMessageById, written inline in the handler's try block; the
\* catch answers 502.
FetchForwardResponse ==
  /\ fetch.pc = "fwd"
  /\ \E reply \in Replies(fetch.fw) :
       LET f == FwStep(fetch.fw, reply)
       IN  fetch' = IF f.pc # "end"
                      THEN [fetch EXCEPT !.fw = f]
                      ELSE [fetch EXCEPT
                              !.fw = f, !.pc = "done",
                              !.status = IF f.out = "threw" THEN 502 ELSE 200,
                              !.answer = IF f.out = "threw" THEN "failed"
                                         ELSE "forwarded"]
  /\ UNCHANGED <<gmail, env, remoteLog, stateFile, passes, sseClients, heartbeats, broken,
               watch, containerVars, mailVars>>

Next ==
  \/ OAuthCallback
  \/ NewMail
  \/ PushArrive
  \/ \E p \in DOMAIN passes : HistoryListResponse(p)
  \/ \E p \in DOMAIN passes : ForwardResponse(p)
  \/ \E p \in DOMAIN passes : ForwardReturn(p)
  \/ FetchArrive
  \/ FetchListResponse
  \/ FetchForwardResponse

Spec == Init /\ [][Next]_vars

\* ------------------------------------------------- the subscriber hub
Clients == 1..MaxClients

\* GET /events: the ready event is written, then sseClients.add(res) and
\* setInterval(heartbeat, 25000).
Subscribe ==
  /\ Len(sseClients) < MaxClients
  /\ LET c == CHOOSE c \in Clients \ Range(sseClients) :
                \A d \in Clients \ Range(sseClients) : c <= d
     IN  /\ sseClients' = Append(sseClients, c)
         /\ heartbeats' = heartbeats \cup {c}
  /\ UNCHANGED <<gmail, env, remoteLog, stateFile, passes, fetch, broken,
               watch, containerVars, mailVars>>

\* Variant of Close without clearInterval(heartbeat).
CloseKeepingTimer(c) ==
  /\ c \in Range(sseClients)
  /\ sseClients' = SelectSeq(sseClients, LAMBDA d : d # c)
  /\ broken' = broken \ {c}
  /\ UNCHANGED <<gmail, env, remoteLog, stateFile, passes, fetch, heartbeats,
                 watch, containerVars, mailVars>>

\* req.on("close"): clearInterval(heartbeat); sseClients.delete(res).
Close(c) ==
  /\ c \in Range(sseClients)
  /\ sseClients' = SelectSeq(sseClients, LAMBDA d : d # c)
  /\ broken' = broken \ {c}
  /\ heartbeats' = heartbeats \ {c}
  /\ UNCHANGED <<gmail, env, remoteLog, stateFile, passes, fetch,
               watch, containerVars, mailVars>>

\* The connection of an attached subscriber fails; until its close event is
\* handled, res.write throws for it.
SocketBreaks(c) ==
  /\ c \in Range(sseClients) \ broken
  /\ broken' = broken \cup {c}
  /\ UNCHANGED <<gmail, env, remoteLog, stateFile, passes, fetch, sseClients, heartbeats,
               watch, containerVars, mailVars>>

\* A heartbeat timer fires: try { res.write(":\n\n") } catch (_) {}. The
\* comment line is written, or the write throws and is dropped; the server
\* keeps no record of either.
Heartbeat(c) ==
  /\ c \in heartbeats
  /\ UNCHANGED vars

\* The first push delivery.
PushOnce == passes = <<>> /\ PushArrive

\* The server with subscribers attaching, failing and leaving while one
\* push delivery is handled.
InitSse ==
  /\ gmail = TRUE
  /\ env \in Environments(BOOLEAN, BOOLEAN, {TRUE}, {TRUE})
  /\ remoteLog = <<>>
  /\ stateFile = StateObject(1)
  /\ passes = <<>>
  /\ fetch = NoFetch
  /\ sseClients = <<>>
  /\ broken = {}
  /\ heartbeats = {}
  /\ watch = NoWatch
  /\ ContainerIdle /\ MailIdle

NextSse ==
  \/ Subscribe
  \/ \E c \in Clients : Close(c)
  \/ \E c \in Clients : SocketBreaks(c)
  \/ \E c \in Clients : Heartbeat(c)
  \/ NewMail
  \/ PushOnce
  \/ \E p \in DOMAIN passes : HistoryListResponse(p)
  \/ \E p \in DOMAIN passes : ForwardResponse(p)
  \/ \E p \in DOMAIN passes : ForwardReturn(p)

SpecSse == InitSse /\ [][NextSse]_vars

\* ------------------------------------- the cursor record in any condition
\* The push handlers over a cursor record that is absent or unparsable,
\* holds JSON null, or holds an object.
InitStore ==
  /\ gmail = TRUE
  /\ env \in Environments({FALSE}, {FALSE}, {TRUE}, {TRUE})
  /\ remoteLog = <<>>
  /\ stateFile \in {[json |-> "unparsable", historyId |-> 0,
                      others |-> "none"],
                     [json |-> "null", historyId |-> 0, others |-> "none"],
                     StateObject(0), StateObject(1),
                     StateObjectWith(0, "watchExpiration"),
                     StateObjectWith(1, "watchExpiration")}
  /\ passes = <<>>
  /\ fetch = NoFetch
  /\ sseClients = <<>>
  /\ broken = {}
  /\ heartbeats = {}
  /\ watch = NoWatch
  /\ ContainerIdle /\ MailIdle

NextStore ==
  \/ NewMail
  \/ PushArrive
  \/ \E p \in DOMAIN passes : HistoryListResponse(p)
  \/ \E p \in DOMAIN passes : ForwardResponse(p)
  \/ \E p \in DOMAIN passes : ForwardReturn(p)

SpecStore == InitStore /\ [][NextStore]_vars

\* ------------------------------ the paging fold over any list of events
\* Event lists in any order, an event's id being 0 when it carries none.
RECURSIVE EventLists(_)
EventLists(n) ==
  IF n = 0
    THEN {<<>>}
    ELSE LET shorter == EventLists(n - 1)
         IN  shorter \cup
               {Append(l, [id |-> i, messagesAdded |-> <<>>]) :
                  l \in {x \in shorter : Len(x) = n - 1}, i \in 0..MaxEvents}

\* One page of the event list: pageToken counts the events already returned.
EventPage(ps, k) ==
  [history |-> SubSeq(remoteLog, ps.pageToken + 1, ps.pageToken + k),
   nextPageToken |-> IF ps.pageToken + k < Len(remoteLog)
                       THEN ps.pageToken + k ELSE 0]

EventPageSizes(ps) ==
  IF ps.pageToken = Len(remoteLog)
    THEN {0}
    ELSE 1..(Len(remoteLog) - ps.pageToken)

\* users.history.list answers with the next k events of the list.
FoldPage(p) ==
  /\ passes[p].pc = "list"
  /\ \E k \in EventPageSizes(passes[p]), writeOk \in BOOLEAN :
       LET r == HistoryListReply(passes[p], EventPage(passes[p], k), writeOk)
       IN  /\ passes' = [passes EXCEPT ![p] = Stamp(r)]
           /\ stateFile' = r.file
  /\ UNCHANGED <<gmail, env, remoteLog, fetch, sseClients, heartbeats, broken,
               watch, containerVars, mailVars>>

InitFold ==
  /\ gmail = TRUE
  /\ env \in Environments({FALSE}, {FALSE}, {TRUE}, {TRUE})
  /\ remoteLog \in EventLists(MaxEvents)
  /\ stateFile = StateObject(0)
  /\ passes = <<>>
  /\ fetch = NoFetch
  /\ sseClients = <<>>
  /\ broken = {}
  /\ heartbeats = {}
  /\ watch = NoWatch
  /\ ContainerIdle /\ MailIdle

NextFold ==
  \/ PushOnce
  \/ \E p \in DOMAIN passes : FoldPage(p)

SpecFold == InitFold /\ [][NextFold]_vars

\* ------------------------------------------- paging over a chain of pages
\* users.history.list answers a suspended pass with a page.
PageResponse(p) == HistoryListResponse(p) /\ passes'[p].threw # "list"

\* Push deliveries whose every page request is answered with a page, while
\* the mailbox goes on recording changes.
InitPaging ==
  /\ gmail = TRUE
  /\ env \in Environments({FALSE}, {FALSE}, {TRUE}, {TRUE})
  /\ remoteLog = <<>>
  /\ stateFile \in {StateObject(0), StateObject(1)}
  /\ passes = <<>>
  /\ fetch = NoFetch
  /\ sseClients = <<>>
  /\ broken = {}
  /\ heartbeats = {}
  /\ watch = NoWatch
  /\ ContainerIdle /\ MailIdle

NextPaging ==
  \/ NewMail
  \/ PushArrive
  \/ \E p \in DOMAIN passes : PageResponse(p)

\* Every page request is answered.
SpecPaging ==
  /\ InitPaging /\ [][NextPaging]_vars
  /\ \A p \in 1..MaxRequests :
       WF_vars(p \in DOMAIN passes /\ PageResponse(p))

\* ------------------------------------------------------ the watch triggers
\* POST /watch/start up to its first await: without a mailbox client it
\* answers 400 "Not connected yet.", without GMAIL_TOPIC 400 "Set
\* GMAIL_TOPIC in .env"; otherwise it calls gmail.users.watch.
WatchStartArrive ==
  /\ watch.pc \in {"idle", "done"}
  /\ Requests < MaxRequests
  /\ watch' = CASE ~gmail ->
                      [pc |-> "done", n |-> watch.n + 1, status |-> 400,
                       answer |-> "notconnected", sent |-> 0, reported |-> 0]
                 [] gmail /\ ~env.GMAIL_TOPIC ->
                      [pc |-> "done", n |-> watch.n + 1, status |-> 400,
                       answer |-> "notopic", sent |-> 0, reported |-> 0]
                 [] OTHER ->
                      [pc |-> "watch", n |-> watch.n + 1, status |-> 0,
                       answer |-> "none", sent |-> mailboxHistoryId,
                       reported |-> 0]
  /\ UNCHANGED <<gmail, env, remoteLog, stateFile, passes, fetch, sseClients, heartbeats,
                 broken, containerVars, mailVars>>

\* What follows `await gmail.users.watch(...)`: the call threw (~ok), or
\* answered with data.historyId (0: without one). loadState's value gets
\* the position assigned and is saved; assigning to null throws. Every
\* exception is answered 500.
watchStartReply(ok, historyId, writeOk) ==
  LET state == loadState
  IN  IF ~ok \/ (historyId # 0 /\ state.json = "null")
        THEN [watch |-> [watch EXCEPT !.pc = "done", !.status = 500,
                                      !.answer = "failed"],
              file |-> stateFile]
        ELSE [watch |-> [watch EXCEPT !.pc = "done", !.status = 200,
                                      !.answer = "started",
                                      !.reported = historyId],
              file |-> saveState(IF historyId # 0
                                   THEN [state EXCEPT !.historyId = historyId]
                                   ELSE state, writeOk)]

\* gmail.users.watch answers; the position it reports is one the mailbox
\* has had since the call was sent: the remote read it while it handled
\* the call, and the handler resumes some time after that.
WatchStartResponse ==
  /\ watch.pc = "watch"
  /\ \E ok \in BOOLEAN, historyId \in {0} \cup (watch.sent)..mailboxHistoryId,
        writeOk \in BOOLEAN :
       LET r == watchStartReply(ok, historyId, writeOk)
       IN  /\ watch' = r.watch
           /\ stateFile' = r.file
  /\ UNCHANGED <<gmail, env, remoteLog, passes, fetch, sseClients, heartbeats, broken,
                 containerVars, mailVars>>

\* POST /watch/stop up to its first await.
WatchStopArrive ==
  /\ watch.pc \in {"idle", "done"}
  /\ Requests < MaxRequests
  /\ watch' = IF ~gmail
                THEN [pc |-> "done", n |-> watch.n + 1, status |-> 400,
                      answer |-> "notconnected", sent |-> 0, reported |-> 0]
                ELSE [pc |-> "stop", n |-> watch.n + 1, status |-> 0,
                      answer |-> "none", sent |-> 0, reported |-> 0]
  /\ UNCHANGED <<gmail, env, remoteLog, stateFile, passes, fetch, sseClients, heartbeats,
                 broken, containerVars, mailVars>>

\* gmail.users.stop answers: "Stopped watch", or 500 when it threw.
WatchStopResponse ==
  /\ watch.pc = "stop"
  /\ \E ok \in BOOLEAN :
       watch' = IF ok
                  THEN [watch EXCEPT !.pc = "done", !.status = 200,
                                     !.answer = "stopped"]
                  ELSE [watch EXCEPT !.pc = "done", !.status = 500,
                                     !.answer = "failed"]
  /\ UNCHANGED <<gmail, env, remoteLog, stateFile, passes, fetch, sseClients, heartbeats,
                 broken, containerVars, mailVars>>

\* The server with its watch triggers, from boot (no mailbox client yet)
\* on; no sink is configured besides the subscriber hub.
InitWatch ==
  /\ gmail = FALSE
  /\ env \in Environments({FALSE}, {FALSE}, BOOLEAN, {TRUE})
  /\ remoteLog = <<>>
  /\ stateFile \in {StateObject(0), StateObject(1)}
  /\ passes = <<>>
  /\ fetch = NoFetch
  /\ sseClients = <<>>
  /\ broken = {}
  /\ heartbeats = {}
  /\ watch = NoWatch
  /\ ContainerIdle /\ MailIdle

NextWatch ==
  \/ Next
  \/ WatchStartArrive
  \/ WatchStartResponse
  \/ WatchStopArrive
  \/ WatchStopResponse

SpecWatch == InitWatch /\ [][NextWatch]_vars

\* The same server booting with a cursor that an earlier run established at
\* position 1, the mailbox's position at boot.
InitEstablished == InitWatch /\ stateFile = StateObject(1)

SpecEstablished == InitEstablished /\ [][NextWatch]_vars

\* ----------------------------------------------------- the agent container
\* server.ts keeps `agentSessions`, a Map from session identifier to
\* AgentSession. A session is [messages, systemPrompt, model, createdAt];
\* createdAt also tells one session object from a later one created under
\* the same identifier. A request names a session or none ("").
SessionIds == {"s1", "s2"}

Prompts == {"p1", "p2"}

UserMessage(prompt) == [role |-> "user", content |-> prompt]

\* The model's reply to a conversation that ends with `prompt`.
AssistantMessage(prompt) == [role |-> "assistant", content |-> prompt]

Answer(op, sessionId, status) ==
  [op |-> op, sessionId |-> sessionId, status |-> status, n |-> response.n + 1]

\* Variant of agentCreate without the `agentSessions.has` test.
agentCreateOverwriting(sessionId, systemPrompt, model) ==
  CASE sessionId = "" ->
         [sessions |-> agentSessions,
          response |-> Answer("create", sessionId, 400)]
    [] sessionId # "" /\ ~env.ANTHROPIC_API_KEY ->
         [sessions |-> agentSessions,
          response |-> Answer("create", sessionId, 500)]
    [] OTHER ->
         [sessions |->
            [s \in DOMAIN agentSessions \cup {sessionId} |->
               IF s = sessionId
                 THEN [messages |-> <<>>,
                       systemPrompt |-> IF systemPrompt = "" THEN "default"
                                                              ELSE systemPrompt,
                       model |-> IF model = "" THEN "claude-sonnet-4-5"
                                               ELSE model,
                       createdAt |-> response.n + 1]
                 ELSE agentSessions[s]],
          response |-> Answer("create", sessionId, 200)]

\* POST /agent/create after `await getBody(req)`: 400 without a sessionId,
\* 409 when the Map has it, 500 without the API key; otherwise a session
\* with no messages is set under the identifier.
agentCreate(sessionId, systemPrompt, model) ==
  IF sessionId \in DOMAIN agentSessions
    THEN [sessions |-> agentSessions,
          response |-> Answer("create", sessionId, 409)]
    ELSE agentCreateOverwriting(sessionId, systemPrompt, model)

AgentCreate ==
  /\ response.n < MaxCalls
  /\ \E sessionId \in SessionIds \cup {""}, systemPrompt \in {"", "custom"},
        model \in {"", "opus"} :
       LET r == agentCreate(sessionId, systemPrompt, model)
       IN  /\ agentSessions' = r.sessions
           /\ response' = r.response
  /\ UNCHANGED <<gmail, env, remoteLog, stateFile, passes, fetch, sseClients, heartbeats,
                 broken, watch, queries, mailVars>>

\* runAgentQuery, line 44: the conversation sent to the model.
conversationMessages(session, prompt) ==
  Append(session.messages, UserMessage(prompt))

\* POST /agent/:sessionId/query after `await getBody(req)` and up to the
\* await of anthropic.messages.create: 400 without a prompt, then 404 when
\* the Map has no such session, then 500 without the API key; otherwise
\* runAgentQuery is entered with the session object.
\* query: the call of runAgentQuery that was started (pc "none": none).
NoQuery ==
  [sessionId |-> "", createdAt |-> 0, prompt |-> "", stream |-> FALSE,
   sent |-> <<>>, pc |-> "none", status |-> 0]

agentQuery(sessionId, prompt, stream) ==
  CASE prompt = "" ->
         [query |-> NoQuery, response |-> Answer("query", sessionId, 400)]
    [] prompt # "" /\ sessionId \notin DOMAIN agentSessions ->
         [query |-> NoQuery, response |-> Answer("query", sessionId, 404)]
    [] prompt # "" /\ sessionId \in DOMAIN agentSessions
         /\ ~env.ANTHROPIC_API_KEY ->
         [query |-> NoQuery, response |-> Answer("query", sessionId, 500)]
    [] OTHER ->
         [query |-> [sessionId |-> sessionId,
                     createdAt |-> agentSessions[sessionId].createdAt,
                     prompt |-> prompt, stream |-> stream,
                     sent |-> conversationMessages(agentSessions[sessionId],
                                                   prompt),
                     pc |-> "model", status |-> 0],
          response |-> Answer("query", sessionId, 0)]

AgentQuery ==
  /\ response.n < MaxCalls
  /\ \E sessionId \in SessionIds, prompt \in Prompts \cup {""},
        stream \in BOOLEAN :
       LET r == agentQuery(sessionId, prompt, stream)
       IN  /\ queries' = IF r.query.pc = "none" THEN queries
                                             ELSE Append(queries, r.query)
           /\ response' = r.response
  /\ UNCHANGED <<gmail, env, remoteLog, stateFile, passes, fetch, sseClients, heartbeats,
                 broken, watch, agentSessions, mailVars>>

\* Variant of pushExchange that pushes the reply without the user message.
pushExchangeReplyOnly(q) ==
  IF /\ q.sessionId \in DOMAIN agentSessions
     /\ agentSessions[q.sessionId].createdAt = q.createdAt
    THEN [agentSessions EXCEPT
            ![q.sessionId].messages = Append(@, AssistantMessage(q.prompt))]
    ELSE agentSessions

\* session.messages.push(userMessage); session.messages.push(assistant):
\* the pushes go to the session object the call was entered with, which the
\* Map may no longer hold.
pushExchange(q) ==
  IF /\ q.sessionId \in DOMAIN agentSessions
     /\ agentSessions[q.sessionId].createdAt = q.createdAt
    THEN [agentSessions EXCEPT
            ![q.sessionId].messages =
               @ \o <<UserMessage(q.prompt), AssistantMessage(q.prompt)>>]
    ELSE agentSessions

\* Variant of modelReply that keeps the user message of a call whose model
\* request threw.
modelReplyKeepingPrompt(q, ok) ==
  CASE ~ok ->
         [query |-> [q EXCEPT !.pc = "done", !.status = 500],
          sessions |->
            IF /\ q.sessionId \in DOMAIN agentSessions
               /\ agentSessions[q.sessionId].createdAt = q.createdAt
              THEN [agentSessions EXCEPT
                      ![q.sessionId].messages =
                         Append(@, UserMessage(q.prompt))]
              ELSE agentSessions]
    [] ok /\ q.stream ->
         [query |-> [q EXCEPT !.pc = "stream", !.status = 200],
          sessions |-> agentSessions]
    [] OTHER ->
         [query |-> [q EXCEPT !.pc = "done", !.status = 200],
          sessions |-> pushExchange(q)]

\* anthropic.messages.create answers a call of runAgentQuery. It threw:
\* the handler answers 500 "Query failed". Non-streaming: the exchange is
\* pushed and the handler answers 200 (after trying to mail the text).
\* Streaming: the handler answers with the stream, which is then read.
modelReply(q, ok) ==
  CASE ~ok ->
         [query |-> [q EXCEPT !.pc = "done", !.status = 500],
          sessions |-> agentSessions]
    [] ok /\ q.stream ->
         [query |-> [q EXCEPT !.pc = "stream", !.status = 200],
          sessions |-> agentSessions]
    [] OTHER ->
         [query |-> [q EXCEPT !.pc = "done", !.status = 200],
          sessions |-> pushExchange(q)]

ModelResponse(i) ==
  /\ queries[i].pc = "model"
  /\ \E ok \in BOOLEAN :
       LET r == modelReply(queries[i], ok)
       IN  /\ queries' = [queries EXCEPT ![i] = r.query]
           /\ agentSessions' = r.sessions
  /\ UNCHANGED <<gmail, env, remoteLog, stateFile, passes, fetch, sseClients, heartbeats,
                 broken, watch, response, mailVars>>

\* The event stream of a streaming call ends: the exchange is pushed; or it
\* breaks, and nothing is pushed.
StreamEnd(i) ==
  /\ queries[i].pc = "stream"
  /\ \E ok \in BOOLEAN :
       /\ queries' = [queries EXCEPT ![i].pc = "done"]
       /\ agentSessions' = IF ok THEN pushExchange(queries[i])
                                 ELSE agentSessions
  /\ UNCHANGED <<gmail, env, remoteLog, stateFile, passes, fetch, sseClients, heartbeats,
                 broken, watch, response, mailVars>>

\* Variant of agentGet that answers for any identifier.
agentGetAnyIdentifier(op, sessionId) == Answer(op, sessionId, 200)

\* GET /agent/:sessionId and GET /agent/:sessionId/messages.
agentGet(op, sessionId) ==
  Answer(op, sessionId, IF sessionId \in DOMAIN agentSessions THEN 200
                                                             ELSE 404)

AgentGet ==
  /\ response.n < MaxCalls
  /\ \E op \in {"info", "messages"}, sessionId \in SessionIds :
       response' = agentGet(op, sessionId)
  /\ UNCHANGED <<gmail, env, remoteLog, stateFile, passes, fetch, sseClients, heartbeats,
                 broken, watch, agentSessions, queries, mailVars>>

\* Variant of agentDelete that answers without touching the Map.
agentDeleteAnswerOnly(sessionId) ==
  [sessions |-> agentSessions,
   response |-> Answer("delete", sessionId,
                       IF sessionId \in DOMAIN agentSessions THEN 200
                                                             ELSE 404)]

\* DELETE /agent/:sessionId.
agentDelete(sessionId) ==
  IF sessionId \notin DOMAIN agentSessions
    THEN [sessions |-> agentSessions,
          response |-> Answer("delete", sessionId, 404)]
    ELSE [sessions |-> [s \in DOMAIN agentSessions \ {sessionId} |->
                          agentSessions[s]],
          response |-> Answer("delete", sessionId, 200)]

AgentDelete ==
  /\ response.n < MaxCalls
  /\ \E sessionId \in SessionIds :
       LET r == agentDelete(sessionId)
       IN  /\ agentSessions' = r.sessions
           /\ response' = r.response
  /\ UNCHANGED <<gmail, env, remoteLog, stateFile, passes, fetch, sseClients, heartbeats,
                 broken, watch, queries, mailVars>>

\* The container from boot on, with or without its API key.
InitAgent ==
  /\ gmail = FALSE
  /\ env \in Environments({FALSE}, {FALSE}, {FALSE}, BOOLEAN)
  /\ remoteLog = <<>>
  /\ stateFile = StateObject(0)
  /\ passes = <<>>
  /\ fetch = NoFetch
  /\ sseClients = <<>>
  /\ broken = {}
  /\ heartbeats = {}
  /\ watch = NoWatch
  /\ ContainerIdle /\ MailIdle

NextAgent ==
  \/ AgentCreate
  \/ AgentQuery
  \/ \E i \in DOMAIN queries : ModelResponse(i)
  \/ \E i \in DOMAIN queries : StreamEnd(i)
  \/ AgentGet
  \/ AgentDelete

SpecAgent == InitAgent /\ [][NextAgent]_vars

\* ------------------------------------------------- extracting the bodies
\* A text is a sequence over these characters: a letter, a space, a line
\* feed, or a whole tag.
IsSpace(c) == c \in {" ", "\n"}

RECURSIVE TrimStart(_)
TrimStart(t) ==
  IF t # <<>> /\ IsSpace(Head(t)) THEN TrimStart(Tail(t)) ELSE t

RECURSIVE TrimEnd(_)
TrimEnd(t) ==
  IF t # <<>> /\ IsSpace(t[Len(t)])
    THEN TrimEnd(SubSeq(t, 1, Len(t) - 1))
    ELSE t

\* String.prototype.trim
Trim(t) == TrimEnd(TrimStart(t))

\* The characters of t at the positions in keep, from position i on.
RECURSIVE Pick(_, _, _)
Pick(t, keep, i) ==
  IF i > Len(t) THEN <<>>
  ELSE (IF i \in keep THEN <<t[i]>> ELSE <<>>) \o Pick(t, keep, i + 1)

\* i..j is a run of white space of t.
SpaceRun(t, i, j) == \A k \in i..j : IsSpace(t[k])

\* stripHtml: a closing block tag becomes a line feed and any other tag a
\* space; /\s+\n/ -> "\n" drops the white space that a line feed follows
\* in the same run; /\s{2,}/ -> " " turns every longer run into one space;
\* then trim. (The texts here hold no style, script, br, li or entity.)
stripHtml(html) ==
  LET untagged == [i \in DOMAIN html |->
                     CASE html[i] = "</p>" -> "\n"
                       [] html[i] = "<p>" -> " "
                       [] OTHER -> html[i]]
      BeforeFeed(i) ==
        /\ IsSpace(untagged[i])
        /\ \E j \in (i + 1)..Len(untagged) :
             untagged[j] = "\n" /\ SpaceRun(untagged, i, j)
      fed == Pick(untagged, {i \in DOMAIN untagged : ~BeforeFeed(i)}, 1)
      InRun(i) ==
        /\ IsSpace(fed[i])
        /\ (i > 1 /\ IsSpace(fed[i - 1])) \/ (i < Len(fed) /\ IsSpace(fed[i + 1]))
      RunStart(i) == InRun(i) /\ ~(i > 1 /\ IsSpace(fed[i - 1]))
      spaced == [i \in DOMAIN fed |-> IF RunStart(i) THEN " " ELSE fed[i]]
      collapsed ==
        Pick(spaced, {i \in DOMAIN spaced : ~InRun(i) \/ RunStart(i)}, 1)
  IN  Trim(collapsed)

\* body.data of a part, as base64url ("": none), and what it decodes to.
\* "!!" holds no base64 character and decodes to the empty string.
Data == {"", "!!", "IA", "IGE", "Yg", "PHA-YjwvcD4", "PHA-PC9wPg"}

\* Only the `if (!data) return ""` and the decoding are reachable:
\* Buffer.from(_, "base64") does not throw on a string.
decodeBase64UrlToUtf8(data) ==
  CASE data = "IA" -> <<" ">>
    [] data = "IGE" -> <<" ", "a">>
    [] data = "Yg" -> <<"b">>
    [] data = "PHA-YjwvcD4" -> <<"<p>", "b", "</p>">>
    [] data = "PHA-PC9wPg" -> <<"<p>", "</p>">>
    [] OTHER -> <<>>

\* The parts of a message: leaves of either text type, and containers that
\* hold one leaf; a payload has any type, possibly inline data, and up to
\* MaxParts parts.
Leaves ==
  [mimeType : {"text/plain", "text/html"}, data : Data \ {""},
   parts : {<<>>}]

Containers ==
  [mimeType : {"multipart/alternative"}, data : {""},
   parts : {<<l>> : l \in Leaves}]

RECURSIVE PartLists(_)
PartLists(n) ==
  IF n = 0 THEN {<<>>}
  ELSE PartLists(n - 1)
         \cup {Append(ps, p) : ps \in {l \in PartLists(n - 1) : Len(l) = n - 1},
                               p \in Leaves \cup Containers}

Payloads ==
  [mimeType : {"text/plain", "text/html", "multipart/mixed"}, data : Data,
   parts : PartLists(MaxParts)]

\* The two tests of walk on one part: a text/plain part with data sets text
\* while text is empty (`!text`), a text/html part with data sets html
\* while html is empty (`!html`).
visit(part, acc) ==
  LET plain == part.mimeType = "text/plain" /\ part.data # ""
                 /\ acc.text = <<>>
      a1 == IF plain
              THEN [acc EXCEPT !.text = decodeBase64UrlToUtf8(part.data)]
              ELSE acc
      rich == part.mimeType = "text/html" /\ part.data # "" /\ a1.html = <<>>
  IN  IF rich
        THEN [a1 EXCEPT !.html = decodeBase64UrlToUtf8(part.data)]
        ELSE a1

\* walk(part), then part.parts.forEach(walk): depth first, in order.
RECURSIVE walk(_, _)
RECURSIVE walkAll(_, _)
walk(part, acc) == walkAll(part.parts, visit(part, acc))

walkAll(parts, acc) ==
  IF parts = <<>> THEN acc
  ELSE walkAll(Tail(parts), walk(Head(parts), acc))

\* extractEmailBodies: inline data of the payload is taken first, as text or
\* html by its type and else as text (`text ||= decoded`); then the walk;
\* both results are trimmed.
extractEmailBodies(p) ==
  LET none == [text |-> <<>>, html |-> <<>>]
      decoded == decodeBase64UrlToUtf8(p.data)
      top == CASE p.data = "" -> none
               [] p.data # "" /\ p.mimeType = "text/plain" ->
                    [none EXCEPT !.text = decoded]
               [] p.data # "" /\ p.mimeType = "text/html" ->
                    [none EXCEPT !.html = decoded]
               [] OTHER -> [none EXCEPT !.text = decoded]
      walked == walk(p, top)
  IN  [text |-> Trim(walked.text), html |-> Trim(walked.html)]

Sentinel == <<"(no text found)">>

\* Variant of buildEmailData that prefers the HTML body.
buildEmailDataPreferringHtml(p) ==
  LET b == extractEmailBodies(p)
  IN  [built |-> TRUE, text |-> b.text, html |-> b.html,
       body |-> IF b.html # <<>> THEN stripHtml(b.html)
                ELSE IF b.text # <<>> THEN b.text ELSE Sentinel,
       textBody |-> IF b.text # <<>> THEN b.text ELSE Undefined,
       htmlBody |-> IF b.html # <<>> THEN b.html ELSE Undefined]

\* forwardMessageById, lines 194-210: the bodies are extracted and
\* emailData is built; body is text || (html ? stripHtml(html) : "(no text
\* found)"), textBody is text || undefined, htmlBody is html || undefined.
buildEmailData(p) ==
  LET b == extractEmailBodies(p)
  IN  [built |-> TRUE, text |-> b.text, html |-> b.html,
       body |-> IF b.text # <<>> THEN b.text
                ELSE IF b.html # <<>> THEN stripHtml(b.html) ELSE Sentinel,
       textBody |-> IF b.text # <<>> THEN b.text ELSE Undefined,
       htmlBody |-> IF b.html # <<>> THEN b.html ELSE Undefined]

BuildEmailData ==
  /\ ~emailData.built
  /\ emailData' = buildEmailData(payload)
  /\ UNCHANGED <<gmail, env, remoteLog, stateFile, passes, fetch, sseClients, heartbeats,
                 broken, watch, containerVars, payload>>

\* users.messages.get has answered with some payload.
InitExtract ==
  /\ gmail = TRUE
  /\ env \in Environments({FALSE}, {FALSE}, {FALSE}, {FALSE})
  /\ remoteLog = <<>>
  /\ stateFile = StateObject(0)
  /\ passes = <<>>
  /\ fetch = NoFetch
  /\ sseClients = <<>>
  /\ broken = {}
  /\ heartbeats = {}
  /\ watch = NoWatch
  /\ ContainerIdle
  /\ payload \in Payloads
  /\ emailData = NoEmailData

NextExtract == BuildEmailData

SpecExtract == InitExtract /\ [][NextExtract]_vars

\* ------------------------------------------------------------ properties
Running(ps) == ps.pc # "done"

\* The change records a pass has folded so far: those after its start
\* position up to the latest one it has seen.
Seen(ps) ==
  {i \in DOMAIN remoteLog :
     remoteLog[i].id > ps.start /\ remoteLog[i].id <= ps.latestHistoryId}

\* C1: the cursor persisted in the state record never decreases from one
\* write to the next, whatever the order and interleaving of the passes.
CursorNeverDecreases ==
  [][stateFile'.historyId >= stateFile.historyId]_vars

\* C2: at most one sync pass is in progress at any time.
SingleFlight ==
  Cardinality({p \in DOMAIN passes : Running(passes[p])}) <= 1

\* C3: no message of a change record is handed to the forwarder by two
\* passes: a later delivery covering the same change range re-forwards
\* nothing, also when the handlers overlap in time.
NoReforwardAcrossPasses ==
  \A p, q \in DOMAIN passes :
    p < q =>
      \A e \in Seen(passes[p]) \cap Seen(passes[q]) :
        \A m \in Range(remoteLog[e].messagesAdded) :
          ~(m \in Range(passes[p].handed) /\ m \in Range(passes[q].handed))

\* Two deliveries of the same valid envelope, one after the other: pass q
\* arrives right after pass p, each arrives when every earlier handler has
\* finished, and the remote log does not change from the arrival of p to the
\* end of q.
SameEnvelopeTwice(p, q) ==
  /\ q = p + 1
  /\ ~Running(passes[p]) /\ ~Running(passes[q])
  /\ passes[p].seq /\ passes[q].seq
  /\ passes[p].hint # 0 /\ passes[q].hint = passes[p].hint
  /\ passes[q].len1 = passes[p].len0

\* Two runs of processHistorySince in immediate succession with no remote
\* change from the start of the first to the end of the second.
TwoRunsInSuccession(p, q) ==
  /\ q = p + 1
  /\ ~Running(passes[p]) /\ ~Running(passes[q])
  /\ passes[p].seq /\ passes[q].seq
  /\ passes[p].outcome = "ok" /\ passes[q].start # 0
  /\ passes[q].len1 = passes[p].len0

SyncIdempotentSameStart ==
  \A p, q \in DOMAIN passes :
    (TwoRunsInSuccession(p, q) /\ passes[q].start = passes[p].start) =>
      passes[q].handed = <<>>

\* C5 as amended: a second run started from the position the first run
\* returned (latestHistoryId) forwards nothing.
SyncIdempotentFromLatest ==
  \A p, q \in DOMAIN passes :
    (TwoRunsInSuccession(p, q)
       /\ passes[q].start = passes[p].latestHistoryId) =>
      passes[q].handed = <<>>

\* C5 witness: the first run forwarded a message and the second, started
\* from the position the first returned, ran to its end.
SecondRunFromLatest ==
  \E p, q \in DOMAIN passes :
    /\ TwoRunsInSuccession(p, q)
    /\ passes[q].start = passes[p].latestHistoryId
    /\ passes[p].start < passes[p].latestHistoryId
    /\ passes[p].handed # <<>> /\ passes[q].outcome = "ok"

\* The messages referenced by the records a pass has folded.
Referenced(ps) ==
  UNION {Range(remoteLog[e].messagesAdded) : e \in Seen(ps)}

\* C6: within one pass every identifier is handed to the forwarder at most
\* once, and a pass that returned has handed over exactly once every
\* identifier referenced by the records it folded, however often referenced.
DedupWithinPass ==
  \A p \in DOMAIN passes :
    /\ \A m \in MsgIds : Count(m, passes[p].handed) <= 1
    /\ (passes[p].pc = "done" /\ passes[p].outcome = "ok") =>
         \A m \in Referenced(passes[p]) : Count(m, passes[p].handed) = 1

\* C6 witness: a returned pass that folded two records naming the same
\* message, one of them naming it twice.
PassSawDuplicates ==
  \E p \in DOMAIN passes :
    /\ passes[p].pc = "done" /\ passes[p].outcome = "ok"
    /\ \E e1, e2 \in Seen(passes[p]) :
         /\ e1 # e2
         /\ Len(remoteLog[e1].messagesAdded) = 2
         /\ Range(remoteLog[e1].messagesAdded)
              = Range(remoteLog[e2].messagesAdded)

\* Every forward in progress or just settled: the one of each running pass
\* and the one of the manual fetch.
Forwards ==
  {passes[p].fw : p \in DOMAIN passes} \cup {fetch.fw}

\* C7: a sink failure does not keep another configured sink from being
\* attempted: once a forward of a fetched message has settled, the webhook
\* and the agent relay have each been attempted if configured.
SinkFailureIsolation ==
  \A f \in Forwards :
    (f.pc = "end" /\ f.bcast = "done") =>
      /\ env.NGROK_ENDPOINT => f.hook # "none"
      /\ env.OUTBOUND_POST_URL => f.query # "none"

\* C8: once the message was fetched and extracted, no sink failure makes the
\* forward throw or the manual fetch answer with a failure status.
NoSinkEscalation ==
  /\ \A f \in Forwards : f.bcast = "done" => f.out # "threw"
  /\ (fetch.pc = "done" /\ fetch.fw.bcast = "done") => fetch.status = 200

\* The agent collaborator failed a call of this forward.
AgentFailed(f) == f.create = "fail" \/ f.query = "fail"

\* C9: when session creation or the query fails, the broadcast was done and
\* the webhook (if configured) was delivered for that message, and the
\* forward does not fail: it settles normally and the manual fetch answers 200.
AgentOutageContained ==
  /\ \A f \in Forwards :
       AgentFailed(f) =>
         /\ f.bcast = "done"
         /\ env.NGROK_ENDPOINT => f.hook = "ok"
         /\ f.out # "threw"
         /\ f.pc = "end" => f.out = "ok"
  /\ (fetch.pc = "done" /\ AgentFailed(fetch.fw)) => fetch.status = 200

\* C9 witness: a pass's forward settled after both agent calls failed, with
\* the webhook configured.
AgentDownForwardSettled ==
  \E p \in DOMAIN passes :
    /\ env.NGROK_ENDPOINT
    /\ passes[p].fw.pc = "end"
    /\ passes[p].fw.create = "fail" /\ passes[p].fw.query = "fail"

\* C10: a pass that has begun forwarding never aborts: when it ends it has
\* returned normally and has handed every pending identifier to the
\* forwarder, whatever the forwards did.
PerMessageIsolation ==
  \A p \in DOMAIN passes :
    (passes[p].handed # <<>> /\ passes[p].pc = "done") =>
      /\ passes[p].outcome = "ok"
      /\ passes[p].handed = passes[p].added

\* C10 witness: the forward of the first identifier failed and the second
\* identifier has been handed to the forwarder.
SecondAttemptedAfterFailure ==
  \E p \in DOMAIN passes :
    /\ passes[p].pc = "fwd" /\ passes[p].failed = 1
    /\ Len(passes[p].handed) = 2

\* The pass record appended by the step, when the step is a push delivery.
Arrived == passes'[Len(passes')]

\* The messages named by the change records after a position.
AddedAfter(pos) ==
  UNION {Range(remoteLog[i].messagesAdded) :
           i \in {j \in DOMAIN remoteLog : remoteLog[j].id > pos}}

\* C11: a pass whose paging completed returns and hands its latest position
\* to saveState whether or not its forwards failed, and the record holds that
\* position when the write succeeds; a later pass that starts from that
\* position hands over only messages of records after it, so a message
\* whose forward failed is not retried.
CursorSavedDespiteFailures ==
  \A p \in DOMAIN passes :
    /\ (passes[p].pc = "done" /\ passes[p].outcome = "ok") =>
         /\ passes[p].wrote
         /\ passes[p].saved => passes[p].cur1 = passes[p].latestHistoryId
    /\ \A q \in DOMAIN passes :
         (/\ p < q /\ passes[p].pc = "done" /\ passes[p].outcome = "ok"
          /\ passes[q].start = passes[p].latestHistoryId) =>
           Range(passes[q].handed) \subseteq AddedAfter(passes[p].latestHistoryId)

\* C11 witness: every forward of a pass failed, the pass saved a cursor
\* beyond its start, and the next pass started from that cursor and returned
\* without handing over the failed message.
AllFailedCursorAdvanced ==
  \E p, q \in DOMAIN passes :
    /\ q = p + 1 /\ passes[p].outcome = "ok" /\ passes[p].saved
    /\ passes[p].handed # <<>> /\ passes[p].failed = Len(passes[p].handed)
    /\ passes[p].start < passes[p].latestHistoryId
    /\ passes[p].cur1 = passes[p].latestHistoryId
    /\ passes[q].start = passes[p].latestHistoryId
    /\ passes[q].pc = "done" /\ passes[q].outcome = "ok"
    /\ Range(passes[q].handed) \cap Range(passes[p].handed) = {}

\* The step in which a page request of pass p fails.
PageRequestFails(p) ==
  passes[p].pc = "list" /\ passes'[p].threw = "list"

\* Pass q is the next trigger after pass p, which a failing page request
\* aborted: each of the two arrived when every earlier handler had finished,
\* so no other pass ran from the arrival of p to the arrival of q.
NextTriggerAfterAbort(p, q) ==
  /\ q = p + 1 /\ passes[p].threw = "list"
  /\ passes[p].seq /\ passes[q].seq /\ passes[q].hint # 0

\* C12 as claimed: a failing page request aborts the pass with nothing
\* forwarded and the cursor record unchanged, and the next trigger starts
\* from the position the aborted pass started from.
PageFailureRetriesSameStart ==
  /\ [][\A p \in DOMAIN passes :
          PageRequestFails(p) =>
            /\ stateFile' = stateFile
            /\ passes'[p].pc = "done" /\ passes'[p].handed = <<>>]_vars
  /\ [](\A p, q \in DOMAIN passes :
          NextTriggerAfterAbort(p, q) => passes[q].start = passes[p].start)

\* C12 as amended: the same, the next trigger starting from the untouched
\* cursor when one is persisted and from its own hint when none is.
PageFailureLeavesCursor ==
  /\ [][\A p \in DOMAIN passes :
          PageRequestFails(p) =>
            /\ stateFile' = stateFile
            /\ passes'[p].pc = "done" /\ passes'[p].handed = <<>>]_vars
  /\ [](\A p, q \in DOMAIN passes :
          NextTriggerAfterAbort(p, q) =>
            passes[q].start = IF passes[p].cur1 # 0 THEN passes[p].cur1
                              ELSE passes[q].hint)

\* C12 witness: a pass was aborted by the failure of a later page, after it
\* had folded a record, and the next trigger started from the cursor the
\* aborted pass had started from and returned.
LaterPageFailedThenRetried ==
  \E p, q \in DOMAIN passes :
    /\ NextTriggerAfterAbort(p, q)
    /\ passes[p].pageToken # 0
    /\ passes[p].latestHistoryId > passes[p].start
    /\ passes[p].cur1 # 0 /\ passes[q].start = passes[p].cur1
    /\ passes[q].start = passes[p].start
    /\ passes[q].outcome = "ok" /\ passes[q].handed # <<>>

UnusablePushDiscarded ==
  /\ [][(Len(passes') > Len(passes) /\ Arrived.hint = 0) =>
          stateFile' = stateFile]_vars
  /\ [](\A p \in DOMAIN passes :
          passes[p].hint = 0 =>
            /\ passes[p].pc = "done" /\ passes[p].start = 0
            /\ passes[p].added = <<>> /\ passes[p].handed = <<>>
            /\ ~passes[p].wrote
            /\ passes[p].outcome \in {"discarded", "error"}
            /\ passes[p].outcome = "error" => passes[p].threw = "decode")

\* C14 witness: a push with a malformed envelope was discarded with a
\* cursor persisted, and the next push was handled: its pass forwarded a
\* message and saved the cursor.
DiscardedThenHandled ==
  \E p, q \in DOMAIN passes :
    /\ q = p + 1 /\ passes[p].threw = "decode" /\ passes[p].cur1 # 0
    /\ passes[q].outcome = "ok" /\ passes[q].handed # <<>> /\ passes[q].saved

\* The greater of two positions.
Max(a, b) == IF a > b THEN a ELSE b

\* C15 as claimed: a push with a position hint starts its pass from the
\* greater of the persisted cursor and the hint.
StartIsGreaterOfCursorAndHint ==
  [][(Len(passes') > Len(passes) /\ Arrived.hint # 0) =>
       Arrived.start = Max(stateFile.historyId, Arrived.hint)]_vars

\* C15 as amended: a push with a position hint starts its pass from the
\* persisted cursor when there is one, whatever the hint, and from the hint
\* when no cursor is persisted.
StartPrefersCursor ==
  [][(Len(passes') > Len(passes) /\ Arrived.hint # 0) =>
       Arrived.start = IF stateFile.historyId # 0 THEN stateFile.historyId
                       ELSE Arrived.hint]_vars

\* C15 witness: a pass started from a persisted cursor that lies behind the
\* hint of its push, and folded a record the hint would have skipped.
StartedBehindHint ==
  \E p \in DOMAIN passes :
    /\ passes[p].start # 0 /\ passes[p].start < passes[p].hint
    /\ passes[p].outcome = "ok" /\ passes[p].handed # <<>>
    /\ \E e \in Seen(passes[p]) : remoteLog[e].id <= passes[p].hint

\* The identifiers carried by the events the log returned.
EventIds == {remoteLog[i].id : i \in DOMAIN remoteLog} \ {0}

Highest(ids) == CHOOSE m \in ids : \A n \in ids : n <= m

\* C16: the latest position a pass returns, and persists when the write
\* succeeds, is the highest identifier among the events of all its pages,
\* in whatever order they came and whether or not some carry none; it is
\* the start position when no event carried an identifier.
LatestIsHighestSeen ==
  \A p \in DOMAIN passes :
    (passes[p].pc = "done" /\ passes[p].outcome = "ok") =>
      /\ passes[p].latestHistoryId =
           IF EventIds = {} THEN passes[p].start ELSE Highest(EventIds)
      /\ passes[p].saved => passes[p].cur1 = passes[p].latestHistoryId

\* C17: the cursor store never breaks a push: no handler is stopped by an
\* exception where it uses what loadState returned, and a pass whose cursor
\* write fails still returns while the record keeps its previous contents.
CursorStoreNeverBreaks ==
  /\ [][\A p \in DOMAIN passes :
          (passes[p].pc # "done" /\ passes'[p].wrote /\ ~passes'[p].saved) =>
            (passes'[p].outcome = "ok" /\ stateFile' = stateFile)]_vars
  /\ [](\A p \in DOMAIN passes : passes[p].threw # "state")

\* C18: when the create-session call is answered 409, nothing is raised:
\* the forward goes on to the query POST of the same message, and settles
\* normally whatever the query answers.
ConflictTreatedAsCreated ==
  \A f \in Forwards :
    f.create = "conflict" =>
      /\ f.out # "threw"
      /\ f.pc \in {"query", "end"}
      /\ f.pc = "end" => (f.query # "none" /\ f.out = "ok")

\* C18 witness: a pass's forward settled after the create call was answered
\* 409 and the query was accepted.
ConflictThenQueryPosted ==
  \E p \in DOMAIN passes :
    /\ passes[p].fw.pc = "end" /\ passes[p].fw.create = "conflict"
    /\ passes[p].fw.query = "ok" /\ passes[p].fw.out = "ok"

\* C19: the broadcast writes the event to every subscriber attached at that
\* moment whose write does not throw, wherever the failing ones stand in
\* the set, and a failing write does not fail the forward: after it the
\* forward throws only where the webhook POST fails.
BroadcastReachesEverySubscriber ==
  /\ [][\A p \in DOMAIN passes :
          (passes[p].fw.bcast = "none" /\ passes'[p].fw.bcast = "done") =>
            /\ passes'[p].fw.sent = Range(sseClients) \ broken
            /\ passes'[p].fw.out # "threw"]_vars
  /\ [](\A f \in Forwards :
          (f.bad # {} /\ f.out = "threw") => f.hook = "fail")

\* C19 witness: a broadcast in which the write to one subscriber threw and
\* another subscriber was written to, in a forward that then delivered to
\* the agent relay and settled normally.
OneWriteFailedOthersServed ==
  \E p \in DOMAIN passes :
    /\ passes[p].fw.bad # {} /\ passes[p].fw.sent # {}
    /\ passes[p].fw.pc = "end" /\ passes[p].fw.out = "ok"
    /\ passes[p].fw.query = "ok"

\* The order of the sinks in a forward: the broadcast, then the webhook if
\* configured, then the agent relay (create, then query) if configured.
SinkOrder(f) ==
  /\ f.hook # "none" => (f.bcast = "done" /\ env.NGROK_ENDPOINT)
  /\ f.create # "none" =>
       /\ f.bcast = "done" /\ env.OUTBOUND_POST_URL
       /\ env.NGROK_ENDPOINT => f.hook = "ok"
  /\ f.query # "none" => f.create # "none"

\* C20: no step of the manual fetch, whatever its outcome, changes the
\* cursor record; a fetch forwards one message, and sends it to the sinks
\* in the order in which a pass's forward does.
FetchIndependentOfCursor ==
  /\ [][fetch' # fetch =>
          /\ stateFile' = stateFile
          /\ fetch.pc = "fwd" => fetch'.fw.id = fetch.fw.id]_vars
  /\ [](/\ SinkOrder(fetch.fw)
        /\ \A p \in DOMAIN passes : SinkOrder(passes[p].fw))

\* C20 witness: with a cursor persisted, a manual fetch forwarded a message
\* to the broadcast, the webhook and the agent relay and answered 200.
FetchForwardedToAllSinks ==
  /\ stateFile.historyId # 0
  /\ fetch.pc = "done" /\ fetch.answer = "forwarded" /\ fetch.status = 200
  /\ fetch.fw.bcast = "done" /\ fetch.fw.hook = "ok" /\ fetch.fw.query = "ok"

\* C28: a forward submits the query only under an established session:
\* the create call of that forward was accepted or answered 409.
QueryOnlyUnderEstablishedSession ==
  \A f \in Forwards :
    f.qsid # "none" => f.create \in {"ok", "conflict"}

\* C29: a forward that has submitted the query has before that sent the
\* create call, and both carried the one session identifier of the process.
CreatePrecedesQuery ==
  \A f \in Forwards :
    /\ f.csid \in {"none", CONTAINER_SESSION_ID}
    /\ f.qsid # "none" =>
         /\ f.create # "none"
         /\ f.csid = CONTAINER_SESSION_ID /\ f.qsid = f.csid

\* C29 witness: two passes each in a forward that sent the create call and
\* then the query.
TwoForwardsSameSession ==
  \E p, q \in DOMAIN passes :
    /\ p # q
    /\ passes[p].fw.qsid # "none" /\ passes[q].fw.qsid # "none"
    /\ passes[p].fw.create = "ok" /\ passes[q].fw.create = "conflict"

\* One step of a forward from f to g keeps the order of the sinks: after the
\* message is fetched the broadcast is done at once; then comes the webhook
\* if configured; then, if configured, the create call and after its answer
\* the query; a sink starts in the step in which the previous one answered.
SinkStep(f, g) ==
  /\ f.pc = "get" =>
       \/ g.pc = "end" /\ g.out = "threw" /\ g.bcast = "none"
       \/ /\ g.bcast = "done"
          /\ g.pc = IF env.NGROK_ENDPOINT THEN "hook"
                    ELSE IF env.OUTBOUND_POST_URL THEN "create" ELSE "end"
  /\ f.pc = "hook" =>
       \/ g.pc = "end" /\ g.out = "threw" /\ g.hook = "fail"
       \/ /\ g.hook = "ok"
          /\ g.pc = IF env.OUTBOUND_POST_URL THEN "create" ELSE "end"
  /\ f.pc = "create" => (g.pc = "query" /\ g.create # "none")
  /\ f.pc = "query" => (g.pc = "end" /\ g.query # "none")

\* C30: every step of a pass's forward keeps the order broadcast, webhook,
\* agent relay; the webhook is attempted only if its endpoint is configured
\* and the agent relay only if its base URL is; a sink is not started while
\* an earlier one is unanswered.
SinksInFixedOrder ==
  /\ [][\A p \in DOMAIN passes :
          (passes[p].pc = "fwd" /\ passes[p].fw.pc # "end"
             /\ passes'[p].fw # passes[p].fw) =>
            SinkStep(passes[p].fw, passes'[p].fw)]_vars
  /\ [](\A f \in Forwards :
          /\ f.hook # "none" => env.NGROK_ENDPOINT
          /\ (f.csid # "none" \/ f.qsid # "none") => env.OUTBOUND_POST_URL
          /\ f.pc = "hook" => (f.csid = "none" /\ f.qsid = "none")
          /\ f.pc = "create" => f.qsid = "none")

\* C30 witness: a forward went through the broadcast, the webhook, the
\* create call and the query, and settled.
AllSinksInTurn ==
  \E p \in DOMAIN passes :
    /\ passes[p].fw.pc = "end" /\ passes[p].fw.bcast = "done"
    /\ passes[p].fw.hook = "ok" /\ passes[p].fw.create = "ok"
    /\ passes[p].fw.query = "ok"

\* C21: while the mailbox client does not exist, no step changes the
\* persisted cursor; a push that arrives is acknowledged and its handler
\* ends at once, discarded or with the exception caught, having handed
\* nothing to the forwarder; a manual fetch answers "Not connected yet."
\* without forwarding; a watch start or stop answers 400 "Not connected
\* yet."; and no forward has run anywhere.
NotConnectedAnswered ==
  /\ [][~gmail =>
         /\ stateFile' = stateFile
         /\ Len(passes') > Len(passes) =>
              /\ Arrived.pc = "done" /\ Arrived.ack = 204
              /\ Arrived.outcome \in {"discarded", "error"}
              /\ Arrived.handed = <<>> /\ Arrived.fw = NoFw
         /\ fetch' # fetch =>
              /\ fetch'.pc = "done" /\ fetch'.answer = "notconnected"
              /\ fetch'.fw = NoFw
         /\ watch' # watch =>
              /\ watch'.pc = "done" /\ watch'.status = 400
              /\ watch'.answer = "notconnected"]_vars
  /\ [](~gmail => /\ fetch.fw = NoFw
                  /\ \A p \in DOMAIN passes :
                       passes[p].handed = <<>> /\ passes[p].fw = NoFw)

\* Before the OAuth callback a push with a usable hint was handled, its
\* TypeError caught, and a watch trigger was answered.
PushAndWatchBeforeConnect ==
  /\ ~gmail
  /\ watch.answer = "notconnected"
  /\ \E p \in DOMAIN passes :
       passes[p].threw = "gmail" /\ passes[p].hint # 0

\* The request the container has just answered or taken up, in a step.
Answered(op) == response'.n # response.n /\ response'.op = op

\* C22: a create request that names a session the Map holds is answered
\* 409 and leaves the whole Map as it was: that session's messages, system
\* prompt, model and creation time, and every other session.
CreateExistingAnswers409 ==
  [][(Answered("create") /\ response'.sessionId \in DOMAIN agentSessions)
       => (response'.status = 409 /\ agentSessions' = agentSessions)]_vars

\* A create was refused for a session that has a conversation stored.
CreateRefusedForSessionWithHistory ==
  /\ response.op = "create" /\ response.status = 409
  /\ response.sessionId \in DOMAIN agentSessions
  /\ agentSessions[response.sessionId].messages # <<>>

\* Call i of runAgentQuery stores its exchange in this step.
Stores(i) ==
  /\ queries[i].pc # "done" /\ queries'[i].pc = "done"
  /\ agentSessions' # agentSessions

\* C23: the conversation a query sends is the session's stored messages
\* followed by the new user message, and when the reply is stored the
\* session's history is that sent conversation followed by the reply,
\* however the queries on a session interleave.
HistoryIsSentPlusReply ==
  /\ [][Len(queries') > Len(queries) =>
         LET q == queries'[Len(queries')]
         IN  q.sent = Append(agentSessions[q.sessionId].messages,
                             UserMessage(q.prompt))]_vars
  /\ [][\A i \in DOMAIN queries :
           Stores(i) =>
             agentSessions'[queries[i].sessionId].messages
               = Append(queries[i].sent, AssistantMessage(queries[i].prompt))]_vars

\* The request answered in this step names a session the Map does not hold.
AnsweredForAbsent(op) ==
  Answered(op) /\ response'.sessionId \notin DOMAIN agentSessions

\* C24 as stated: a query, get-info, get-messages or delete that names a
\* session the Map does not hold is answered 404, and the Map, every
\* history in it and the calls in flight are unchanged.
AbsentSessionAnswers404 ==
  [][\A op \in {"query", "info", "messages", "delete"} :
       AnsweredForAbsent(op) =>
         /\ response'.status = 404
         /\ agentSessions' = agentSessions /\ queries' = queries]_vars

\* C24, amended: the same, except that a query without a prompt is answered
\* 400 whether or not the session exists; a query that carries a prompt and
\* names an absent session is answered 404 and starts no call.
AbsentSessionAnswers404GivenPrompt ==
  /\ [][\A op \in {"query", "info", "messages", "delete"} :
         AnsweredForAbsent(op) =>
           /\ response'.status = 404
                \/ (op = "query" /\ response'.status = 400)
           /\ agentSessions' = agentSessions /\ queries' = queries]_vars
  /\ [](\A sessionId \in SessionIds \ DOMAIN agentSessions,
          prompt \in Prompts, stream \in BOOLEAN :
          /\ agentQuery(sessionId, prompt, stream).response.status = 404
          /\ agentQuery(sessionId, prompt, stream).query = NoQuery)

\* A session exists with a conversation stored, and a request for the
\* other identifier, which the Map does not hold, was answered 404.
AbsentAnswered404BesideLiveSession ==
  /\ response.status = 404
  /\ response.op \in {"query", "info", "messages", "delete"}
  /\ response.sessionId \notin DOMAIN agentSessions
  /\ \E s \in DOMAIN agentSessions : agentSessions[s].messages # <<>>

\* The last request answered was a successful delete of session s.
JustDeleted(s) ==
  response.op = "delete" /\ response.status = 200 /\ response.sessionId = s

\* C25 as stated: a successful delete removes the session from the Map; a
\* query on that identifier that follows is answered 404; a create with
\* that identifier that follows succeeds with an empty history, and no
\* exchange of the deleted session ever enters the new one.
DeleteForgetsSession ==
  /\ [][\A s \in SessionIds :
         /\ (Answered("delete") /\ response'.status = 200
               /\ response'.sessionId = s)
              => s \notin DOMAIN agentSessions'
         /\ (JustDeleted(s) /\ Answered("query") /\ response'.sessionId = s)
              => response'.status = 404
         /\ (JustDeleted(s) /\ Answered("create") /\ response'.sessionId = s)
              => /\ response'.status = 200
                 /\ s \in DOMAIN agentSessions'
                 /\ agentSessions'[s].messages = <<>>]_vars
  /\ [](\A s \in DOMAIN agentSessions :
          \A k \in DOMAIN agentSessions[s].messages :
            \E i \in DOMAIN queries :
              /\ queries[i].sessionId = s
              /\ queries[i].createdAt = agentSessions[s].createdAt
              /\ queries[i].prompt = agentSessions[s].messages[k].content)

\* C25, amended: as above, with the query that follows the delete answered
\* 404 when it carries a prompt and 400 when it does not.
DeleteForgetsSessionGivenPrompt ==
  /\ [][\A s \in SessionIds :
         /\ (Answered("delete") /\ response'.status = 200
               /\ response'.sessionId = s)
              => s \notin DOMAIN agentSessions'
         /\ (JustDeleted(s) /\ Answered("query") /\ response'.sessionId = s)
              => /\ response'.status \in {400, 404}
                 /\ queries' = queries
         /\ (JustDeleted(s) /\ Answered("create") /\ response'.sessionId = s)
              => /\ response'.status = 200
                 /\ s \in DOMAIN agentSessions'
                 /\ agentSessions'[s].messages = <<>>]_vars
  /\ [](\A s \in SessionIds :
          JustDeleted(s) =>
            \A prompt \in Prompts, stream \in BOOLEAN :
              agentQuery(s, prompt, stream).response.status = 404)
  /\ [](\A s \in DOMAIN agentSessions :
          \A k \in DOMAIN agentSessions[s].messages :
            \E i \in DOMAIN queries :
              /\ queries[i].sessionId = s
              /\ queries[i].createdAt = agentSessions[s].createdAt
              /\ queries[i].prompt = agentSessions[s].messages[k].content)

\* A session that had stored an exchange was deleted and its identifier
\* created again: the session now under it has no messages.
RecreatedAfterDeleteIsEmpty ==
  \E s \in DOMAIN agentSessions :
    /\ agentSessions[s].messages = <<>>
    /\ response.op = "create" /\ response.status = 200
    /\ response.sessionId = s
    /\ \E i \in DOMAIN queries :
         /\ queries[i].sessionId = s /\ queries[i].pc = "done"
         /\ queries[i].status = 200 /\ ~queries[i].stream
         /\ queries[i].createdAt # agentSessions[s].createdAt

\* The parts of a tree in depth-first order, the root first.
RECURSIVE DepthFirst(_)
RECURSIVE DepthFirstAll(_)
DepthFirst(part) == <<part>> \o DepthFirstAll(part.parts)

DepthFirstAll(parts) ==
  IF parts = <<>> THEN <<>>
  ELSE DepthFirst(Head(parts)) \o DepthFirstAll(Tail(parts))

\* The parts of the given type that carry data, in depth-first order.
PartsOfType(p, mimeType) ==
  SelectSeq(DepthFirst(p), LAMBDA q : q.mimeType = mimeType /\ q.data # "")

\* The content of the first part of the type, as the extractor returns
\* content: decoded and trimmed.
FirstContent(p, mimeType) ==
  Trim(decodeBase64UrlToUtf8(Head(PartsOfType(p, mimeType)).data))

\* C26: whenever the tree has a plain-text part, the text returned is the
\* content of the first one in depth-first order, and whenever it has an
\* HTML part, the html returned is the content of the first one; also when
\* that content is the empty string.
FirstPartOfEachTypeWins ==
  emailData.built =>
    /\ PartsOfType(payload, "text/plain") # <<>>
         => emailData.text = FirstContent(payload, "text/plain")
    /\ PartsOfType(payload, "text/html") # <<>>
         => emailData.html = FirstContent(payload, "text/html")

\* C27 as stated: body is the plain text if the tree has a plain-text part;
\* else, if it has an HTML part, the stripped HTML, with no text reported;
\* else the sentinel; and body is never undefined.
BodyFromPlainPartIfAny ==
  emailData.built =>
    /\ emailData.body # Undefined
    /\ CASE PartsOfType(payload, "text/plain") # <<>> ->
               emailData.body = emailData.text
          [] PartsOfType(payload, "text/plain") = <<>>
               /\ PartsOfType(payload, "text/html") # <<>> ->
               /\ emailData.body = stripHtml(emailData.html)
               /\ emailData.textBody = Undefined
          [] OTHER -> emailData.body = Sentinel

\* C27, amended: body is the extracted text when that is not empty; else
\* the extracted HTML, stripped of its tags, when that is not empty, with
\* no text reported; else the sentinel; and body is never undefined.
BodyFromExtractedText ==
  emailData.built =>
    /\ emailData.body # Undefined
    /\ CASE emailData.text # <<>> ->
               /\ emailData.body = emailData.text
               /\ emailData.textBody = emailData.text
          [] emailData.text = <<>> /\ emailData.html # <<>> ->
               /\ emailData.body = stripHtml(emailData.html)
               /\ \A i \in DOMAIN emailData.body :
                    emailData.body[i] \notin {"<p>", "</p>"}
               /\ emailData.textBody = Undefined
          [] OTHER -> emailData.body = Sentinel

\* The tree has a plain-text part, which is blank, and an HTML part: the
\* body is the text of the HTML.
BlankPlainPartHtmlUsed ==
  /\ emailData.built
  /\ PartsOfType(payload, "text/plain") # <<>>
  /\ emailData.text = <<>> /\ emailData.html # <<>>
  /\ emailData.body = <<"b">>

\* Pass p runs sseBroadcast in this step.
Broadcasts(p) ==
  passes[p].fw.bcast # "done" /\ passes'[p].fw.bcast = "done"

\* C33: the subscriber set changes only by one subscriber attaching or one
\* closing, never in a step that forwards; a subscriber that leaves the set
\* has its heartbeat timer cleared, so that the timers armed are those of
\* the subscribers in the set; and a broadcast is written to the
\* subscribers in the set at that moment and to no other.
SubscribersAreAttachedNotClosed ==
  /\ [][sseClients' # sseClients =>
         /\ passes' = passes
         /\ \E c \in Clients :
              \/ /\ c \notin Range(sseClients)
                 /\ sseClients' = Append(sseClients, c)
              \/ /\ c \in Range(sseClients)
                 /\ sseClients' = SelectSeq(sseClients, LAMBDA d : d # c)
                 /\ c \notin heartbeats']_vars
  /\ [][\A p \in DOMAIN passes :
         Broadcasts(p) =>
           passes'[p].fw.sent \cup passes'[p].fw.bad = Range(sseClients)]_vars
  /\ [](heartbeats = Range(sseClients))

\* Subscriber 1 attached and closed; a later broadcast was written to
\* subscriber 2 alone.
BroadcastAfterClose ==
  /\ sseClients = <<2>> /\ heartbeats = {2}
  /\ \E p \in DOMAIN passes :
       /\ passes[p].fw.bcast = "done"
       /\ passes[p].fw.sent = {2} /\ passes[p].fw.bad = {}

\* C34: a subscriber whose write throws during a broadcast is removed from
\* the subscriber set by that broadcast.
FailedSubscriberEvicted ==
  [][\A p \in DOMAIN passes :
       Broadcasts(p) => Range(sseClients') \cap passes'[p].fw.bad = {}]_vars

\* Pass p writes the cursor record in this step, and the write succeeds.
WritesCursor(p) ==
  ~passes[p].wrote /\ passes'[p].wrote /\ passes'[p].saved

\* C39: the record a pass writes is the record loadState returned at that
\* moment with the position replaced: its other keys are written back as
\* they were (none, when the file was missing or did not parse).
CursorWriteKeepsOtherKeys ==
  [][\A p \in DOMAIN passes :
       WritesCursor(p) =>
         /\ stateFile'.json = "object"
         /\ stateFile'.historyId = passes'[p].latestHistoryId
         /\ stateFile'.others = loadState.others]_vars

\* A pass moved the cursor of a record that holds another key.
CursorMovedBesideOtherKey ==
  /\ stateFile.others = "watchExpiration"
  /\ \E p \in DOMAIN passes :
       /\ passes[p].saved /\ passes[p].handed # <<>>
       /\ stateFile.historyId = passes[p].latestHistoryId
       /\ passes[p].latestHistoryId # passes[p].start

\* A watch trigger is answered in this step.
WatchAnswered == watch.pc # "done" /\ watch'.pc = "done"

\* C40: a watch start changes the persisted cursor only when the watch call
\* succeeded and reported a position, and then to that position; when the
\* call failed, the topic is not configured or the mailbox is not
\* connected, the cursor record is unchanged; and the cursor a watch start
\* leaves is never lower than the one it found.
WatchStartSetsCursor ==
  [][WatchAnswered =>
       /\ stateFile'.historyId # stateFile.historyId =>
            /\ watch'.answer = "started" /\ watch'.reported # 0
            /\ stateFile'.historyId = watch'.reported
       /\ watch'.answer \in {"failed", "notopic", "notconnected"} =>
            stateFile' = stateFile
       /\ stateFile'.historyId >= stateFile.historyId]_vars

\* The messages handed to forwardMessageById by some sync pass.
Attempted == UNION {Range(passes[p].handed) : p \in DOMAIN passes}

\* The messages of change record i.
RecordedBy(i) == Range(remoteLog[i].messagesAdded)

\* C35: with the cursor established at position 1, the persisted cursor is
\* never past a change record whose messages no sync pass has handed to the
\* forwarder; and once a push with a usable hint has been handled with its
\* paging successful, every message recorded before that push arrived has
\* been handed to the forwarder by some pass.
EveryMessageAttempted ==
  /\ \A i \in DOMAIN remoteLog :
       remoteLog[i].id <= stateFile.historyId => RecordedBy(i) \subseteq Attempted
  /\ \A p \in DOMAIN passes :
       (passes[p].pc = "done" /\ passes[p].outcome = "ok") =>
         \A i \in 1..passes[p].len0 : RecordedBy(i) \subseteq Attempted

\* The elements of a sequence in the order of their first occurrence.
RECURSIVE FirstOccurrences(_)
FirstOccurrences(ids) ==
  IF ids = <<>> THEN <<>>
  ELSE LET before == FirstOccurrences(SubSeq(ids, 1, Len(ids) - 1))
           last == ids[Len(ids)]
       IN  IF last \in Range(before) THEN before ELSE Append(before, last)

\* The message identifiers of the change records at indexes from..to, in
\* record order and, within a record, in the order they are listed.
RECURSIVE RecordedIn(_, _)
RecordedIn(from, to) ==
  IF from > to \/ from < 1 THEN <<>>
  ELSE RecordedIn(from, to - 1) \o remoteLog[to].messagesAdded

\* The records pass p has folded are those after its start position up to
\* the latest position it has seen.
FoldedBy(p) ==
  RecordedIn(passes[p].start, passes[p].latestHistoryId - 1)

\* Pass p calls forwardMessageById in this step.
HandsOver(p) == Len(passes'[p].handed) > Len(passes[p].handed)

\* The pass is between two forwards: its page loop has just ended, or the
\* forward it awaited has settled.
BetweenForwards(ps) == ps.pc = "list" \/ (ps.pc = "fwd" /\ ps.fw.pc = "end")

\* C31: the pending set of a pass holds the identifiers of the records it
\* folded in the order of their first occurrence; the identifiers handed to
\* the forwarder are a prefix of it, in that order; and one more is handed
\* over only when no forward of the pass is under way.
ForwardsInInsertionOrder ==
  /\ [](\A p \in DOMAIN passes :
          /\ passes[p].added = FirstOccurrences(FoldedBy(p))
          /\ passes[p].handed
               = SubSeq(passes[p].added, 1, Len(passes[p].handed)))
  /\ [][\A p \in DOMAIN passes :
         HandsOver(p) =>
           /\ Len(passes'[p].handed) = Len(passes[p].handed) + 1
           /\ BetweenForwards(passes[p])]_vars

\* A pass folded a record that lists a message twice and another record,
\* and has forwarded both messages.
TwoForwardedInOrder ==
  \E p \in DOMAIN passes :
    /\ passes[p].pc = "done" /\ Len(passes[p].handed) = 2
    /\ Len(FoldedBy(p)) > 2

\* C32: a page that names a next page keeps the pass in the loop, with a
\* token no earlier request of the pass carried; a page that names none
\* ends the loop; when the loop ends the pass has folded every record the
\* chain held; and every pass in the loop leaves it.
PagingFollowsChain ==
  /\ [][\A p \in DOMAIN passes :
         passes[p].pc = "list" /\ passes'[p] # passes[p] =>
           /\ passes'[p].pageToken # 0 =>
                /\ passes'[p].pc = "list"
                /\ passes'[p].pageToken > passes[p].pageToken
                /\ passes'[p].latestHistoryId = passes'[p].pageToken
           /\ passes'[p].pageToken = 0 =>
                /\ passes'[p].pc # "list"
                /\ passes'[p].latestHistoryId
                     = Max(passes[p].start, mailboxHistoryId)
           /\ passes'[p].added = FirstOccurrences(
                 RecordedIn(passes[p].start,
                            passes'[p].latestHistoryId - 1))]_vars
  /\ \A p \in 1..MaxRequests :
       (p \in DOMAIN passes /\ passes[p].pc = "list")
         ~> (p \in DOMAIN passes /\ passes[p].pc # "list")

\* A pass went through a chain of two pages and holds the messages of both.
TwoPagesFolded ==
  \E p \in DOMAIN passes :
    /\ passes[p].pc # "list" /\ passes[p].outcome # "error"
    /\ passes[p].latestHistoryId = passes[p].start + 2
    /\ Len(passes[p].added) = 2

\* C36: while a pass is in its page loop it has forwarded nothing; it calls
\* the forwarder only once a page has named no next page; it writes the
\* cursor in the step that ends it, after every pending identifier was
\* handed over and the last forward settled; a pass that returns has
\* written it; and nothing else changes the cursor record.
PagesThenForwardsThenCursor ==
  /\ [](\A p \in DOMAIN passes :
          /\ passes[p].pc = "list" =>
               passes[p].handed = <<>> /\ passes[p].fw = NoFw
          /\ (passes[p].pc = "done" /\ passes[p].outcome = "ok") =>
               passes[p].wrote)
  /\ [][\A p \in DOMAIN passes :
         /\ HandsOver(p) => passes'[p].pageToken = 0
         /\ (~passes[p].wrote /\ passes'[p].wrote) =>
              /\ passes'[p].pc = "done" /\ passes'[p].outcome = "ok"
              /\ passes'[p].handed = passes'[p].added
              /\ BetweenForwards(passes[p])]_vars
  /\ [][stateFile' # stateFile =>
         \E p \in DOMAIN passes :
           ~passes[p].wrote /\ passes'[p].wrote]_vars

\* A pass folded two pages, forwarded two messages, one of which failed,
\* and then wrote the cursor.
CursorWrittenAfterTwoForwards ==
  \E p \in DOMAIN passes :
    /\ passes[p].pc = "done" /\ passes[p].saved
    /\ Len(passes[p].handed) = 2 /\ passes[p].failed = 1

\* C37: every session's stored history has even length and alternates
\* user, assistant from a user message on, however the streaming and
\* non-streaming queries on the session interleave.
HistoryAlternates ==
  \A s \in DOMAIN agentSessions :
    LET m == agentSessions[s].messages
    IN  /\ Len(m) % 2 = 0
        /\ \A k \in DOMAIN m :
             m[k].role = IF k % 2 = 1 THEN "user" ELSE "assistant"

\* A session holds two exchanges, one stored by a streaming query and one by
\* a non-streaming query that were both under way at the same time.
TwoExchangesOfBothKinds ==
  \E s \in DOMAIN agentSessions :
    /\ Len(agentSessions[s].messages) = 4
    /\ \E i, j \in DOMAIN queries :
         /\ queries[i].sessionId = s /\ queries[j].sessionId = s
         /\ queries[i].stream /\ ~queries[j].stream
         /\ queries[i].pc = "done" /\ queries[j].pc = "done"
         /\ queries[i].sent = queries[j].sent

\* The model request of query i throws in this step.
ModelCallThrows(i) ==
  queries[i].pc = "model" /\ queries'[i].pc = "done"
    /\ queries'[i].status = 500

\* C38: a query answered 400, 404 or 500 before the model is called, and a
\* query whose model request throws, leave every session's history, and the
\* Map itself, as they were.
FailedQueryLeavesHistory ==
  /\ [][(Answered("query") /\ response'.status \in {400, 404, 500})
         => (agentSessions' = agentSessions /\ queries' = queries)]_vars
  /\ [][\A i \in DOMAIN queries :
         ModelCallThrows(i) => agentSessions' = agentSessions]_vars

\* The model request of a query threw on a session that holds an exchange,
\* and the session still holds just that exchange.
FailedQueryOnSessionWithHistory ==
  \E i \in DOMAIN queries :
    /\ queries[i].pc = "done" /\ queries[i].status = 500
    /\ queries[i].sessionId \in DOMAIN agentSessions
    /\ agentSessions[queries[i].sessionId].createdAt = queries[i].createdAt
    /\ Len(queries[i].sent) = 3
    /\ Len(agentSessions[queries[i].sessionId].messages) = 2

====
